---- MODULE Spec2Model ----
(***************************************************************************)
(* A model of the teensy40 crate's clock controller (src/src/ccm.rs) and   *)
(* the peripherals it gates (src/src/lpuart.rs, src/src/iomuxc.rs), with   *)
(* the boot path of src/src/startup.rs.                                    *)
(*                                                                         *)
(* A 32-bit register is the set of the indices of its bits that are 1.     *)
(* An enum value is the string of its variant name.  A call that panics    *)
(* halts the program: pc = "panic" and no action is enabled any more.      *)
(***************************************************************************)
EXTENDS Integers, Sequences, FiniteSets, TLC

\* ------------------------------------------------------------------ bounds

\* LpUart1 .. LpUart<MaxUart> are the UARTs the client enables and disables.
MaxUart == 2

\* set_divisor is called with the divisors 0 .. MaxDivisor.
MaxDivisor == 2

\* The unsafe set_clock_gate is called at most MaxGateWrites times in a run.
MaxGateWrites == 1

\* Ccm::new is called from MaxCallers contexts that preempt one another.
MaxCallers == 3

\* write_str is called with strings of at most MaxLen bytes, and a UART is
\* followed for the first MaxWire bytes written to it.
MaxLen == 2
MaxWire == 3

\* ------------------------------------------------------- bit_field helpers

RECURSIVE Pow2(_)
Pow2(n) == IF n = 0 THEN 1 ELSE 2 * Pow2(n - 1)

\* BitField::get_bit
get_bit(r, i) == i \in r

\* BitField::get_bits(lo..hi): the field's bits as a number, bit lo lowest.
RECURSIVE get_bits(_, _, _)
get_bits(r, lo, hi) ==
    IF lo >= hi THEN 0
    ELSE (IF lo \in r THEN 1 ELSE 0) + 2 * get_bits(r, lo + 1, hi)

\* BitField::set_bits asserts that the value fits the field.
fits(lo, hi, v) == v >= 0 /\ v < Pow2(hi - lo)

\* BitField::set_bits(lo..hi, v): only the bits lo .. hi-1 change.
set_bits(r, lo, hi, v) ==
    (r \ (lo .. (hi - 1)))
        \cup {i \in lo .. (hi - 1) : (v \div Pow2(i - lo)) % 2 = 1}

\* BitField::set_bit(i, b)
set_bit(r, i, b) == IF b THEN r \cup {i} ELSE r \ {i}

\* ------------------------------------------------- enum <-> u32 conversions

PrePeriphClockInput_from(v) ==
    CASE v = 0 -> "SystemPll"
      [] v = 1 -> "SystemPllPfd2"
      [] v = 2 -> "SystemPllPfd0"
      [] v = 3 -> "ArmPll"
      [] OTHER -> "panic"

\* PrePeriphClockInput_into with the codes of the two PFD outputs exchanged.
PrePeriphClockInput_into_swapped(e) ==
    CASE e = "ArmPll" -> 3
      [] e = "SystemPll" -> 0
      [] e = "SystemPllPfd0" -> 1
      [] e = "SystemPllPfd2" -> 2

PrePeriphClockInput_into(e) ==
    CASE e = "ArmPll" -> 3
      [] e = "SystemPll" -> 0
      [] e = "SystemPllPfd0" -> 2
      [] e = "SystemPllPfd2" -> 1

PeriphClock2Input_from(v) ==
    CASE v = 0 -> "Usb1Pll"
      [] v = 1 -> "Oscillator"
      [] v = 2 -> "SystemPllBypass"
      [] OTHER -> "panic"

PeriphClock2Input_into(e) ==
    CASE e = "SystemPllBypass" -> 2
      [] e = "Usb1Pll" -> 0
      [] e = "Oscillator" -> 1

PeriphClockInput_from(v) ==
    CASE v = 0 -> "PrePeriphClock"
      [] v = 1 -> "PeriphClock2"
      [] OTHER -> "panic"

PeriphClockInput_into(e) ==
    CASE e = "PrePeriphClock" -> 0
      [] e = "PeriphClock2" -> 1

UartClockInput_from(v) ==
    CASE v = 0 -> "Usb1PllOverSix"
      [] v = 1 -> "Oscillator"
      [] OTHER -> "panic"

UartClockInput_into(e) ==
    CASE e = "Usb1PllOverSix" -> 0
      [] e = "Oscillator" -> 1

ClockGate_from(v) ==
    CASE v = 0 -> "Disabled"
      [] v = 1 -> "EnabledDuringWake"
      [] v = 3 -> "Enabled"
      [] OTHER -> "panic"

\* ClockGate_into with the variants numbered in the order of their power.
ClockGate_into_binary(e) ==
    CASE e = "Disabled" -> 0
      [] e = "EnabledDuringWake" -> 1
      [] e = "Enabled" -> 2

ClockGate_into(e) ==
    CASE e = "Disabled" -> 0
      [] e = "Enabled" -> 3
      [] e = "EnabledDuringWake" -> 1

PeripheralPllMultiplier_from(v) ==
    CASE v = 0 -> "Twenty"
      [] v = 1 -> "TwentyTwo"
      [] OTHER -> "panic"

PrePeriphClockInputs == {"ArmPll", "SystemPll", "SystemPllPfd0", "SystemPllPfd2"}
PeriphClock2Inputs == {"SystemPllBypass", "Usb1Pll", "Oscillator"}
PeriphClockInputs == {"PrePeriphClock", "PeriphClock2"}
UartClockInputs == {"Usb1PllOverSix", "Oscillator"}
ClockGates == {"Disabled", "Enabled", "EnabledDuringWake"}

\* ------------------------------------------------------------- peripherals

UartNames ==
    <<"LpUart1", "LpUart2", "LpUart3", "LpUart4",
      "LpUart5", "LpUart6", "LpUart7", "LpUart8">>

Uarts == {UartNames[i] : i \in 1 .. 8}

\* <T as ClockGated>::GATE: (register, field)
GATE(p) ==
    CASE p = "LpUart1" -> <<5, 12>>
      [] p = "LpUart2" -> <<0, 14>>
      [] p = "LpUart3" -> <<0, 6>>
      [] p = "LpUart4" -> <<1, 12>>
      [] p = "LpUart5" -> <<3, 1>>
      [] p = "LpUart6" -> <<3, 3>>
      [] p = "LpUart7" -> <<5, 13>>
      [] p = "LpUart8" -> <<6, 7>>
      [] p = "Iomuxc" -> <<4, 1>>

\* UART_CLOCK_GATES without its last entry, the gate of LPUART8.
UART_CLOCK_GATES_seven ==
    <<<<5, 12>>, <<0, 14>>, <<0, 6>>, <<1, 12>>,
      <<3, 1>>, <<3, 3>>, <<5, 13>>>>

\* The gates uart_clock_selector_mut looks at, in its order.
UART_CLOCK_GATES ==
    <<<<5, 12>>, <<0, 14>>, <<0, 6>>, <<1, 12>>,
      <<3, 1>>, <<3, 3>>, <<5, 13>>, <<6, 7>>>>

\* The peripherals the client of this model enables and disables.
Exercised ==
    {"Iomuxc"} \cup {UartNames[i] : i \in 1 .. (IF MaxUart < 8 THEN MaxUart ELSE 8)}

\* ------------------------------------------------------------------- state

VARIABLES
    cbcdr,              \* CcmRegs.cbcdr: bit 25 is periph_clk_sel
    cbcmr,              \* CcmRegs.cbcmr: 12..14 periph_clk2_sel, 18..20 pre_periph_clk_sel
    cscdr1,             \* CcmRegs.cscdr1: 0..6 uart_clk_podf, bit 6 uart_clk_sel
    cdhipr,             \* CcmRegs.cdhipr: bit 3 and bit 5 are the switch-busy bits
    ccgr,               \* CcmRegs.ccgr[0..7]: sixteen 2-bit gate fields each
    pll_arm,            \* CcmAnalogRegs.pll_arm: 12 powerdown, 13 enable, 16 bypass
    pll_usb1,           \* CcmAnalogRegs.pll_usb1: 1 div_select, 12 power, 13 enable
    gpio6,              \* the GPIO6 data bits lit through its DR_SET register
    CCM_INIT,           \* static CCM_INIT: AtomicBool
    PROGRESS_COUNTER,   \* static PROGRESS_COUNTER: AtomicU8
    ccm,                \* the number of Ccm values the program owns
    borrow,             \* the sub-handle that borrows the Ccm mutably, or "none"
    handles,            \* per peripheral, the number of live handles
    gate_writes,        \* the number of unsafe set_clock_gate calls made
    boot,               \* the position in startup() -> main(), "api" outside it
    pc,                 \* "idle", a busy-wait the program spins in, or "panic"
    ret,                \* the last call: [op, arg, res]
    GPIO_AD_B0_02_INIT, \* static GPIO_AD_B0_02_INIT: AtomicBool
    sw_mux_ctl,         \* the pad mux register of GPIO_AD_B0_02 at 0x401F_80C4
    pins,               \* per pin type, the number of live values
    pins_issued,        \* the number of GpioAdB0_02 values get_pin has returned
    LpUartRegs,         \* per UART, its registers baud, stat, ctrl and data
    typed,              \* per UART and type LpUartN<T, R> other than <(), ()>,
                        \* the number of live handles of that type
    write_str_rest,     \* the bytes of the string write_str has not sent yet
    wire,               \* per UART, the bytes written to its data register
    callers,            \* per concurrent caller of Ccm::new, its position and
                        \* its local was_init
    progress_calls      \* per concurrent caller of debug::progress, its
                        \* position and its local idx

hw == <<cbcdr, cbcmr, cscdr1, cdhipr, ccgr, pll_arm, pll_usb1, gpio6>>
statics == <<CCM_INIT, PROGRESS_COUNTER>>
prog == <<ccm, borrow, handles, gate_writes>>
iomuxc == <<GPIO_AD_B0_02_INIT, sw_mux_ctl, pins, pins_issued>>
lpuart == <<LpUartRegs, typed, write_str_rest, wire>>
race == <<callers, progress_calls>>
vars == <<hw, statics, prog, boot, pc, ret, iomuxc, lpuart, race>>

\* ---------------------------------------------------------------- reads

\* PeriphClockSelector::input
PeriphClockSelector_input == PeriphClockInput_from(get_bits(cbcdr, 25, 26))

\* PeriphClock2Selector::input
PeriphClock2Selector_input == PeriphClock2Input_from(get_bits(cbcmr, 12, 14))

\* PrePeriphClockSelector::input
PrePeriphClockSelector_input == PrePeriphClockInput_from(get_bits(cbcmr, 18, 20))

\* UartClockSelector::input
UartClockSelector_input == UartClockInput_from(get_bits(cscdr1, 6, 7))

\* UartClockSelector::divisor
UartClockSelector_divisor_raw == get_bits(cscdr1, 0, 6)

UartClockSelector_divisor == get_bits(cscdr1, 0, 6) + 1

\* Usb1Pll::multiplier
Usb1Pll_multiplier == PeripheralPllMultiplier_from(get_bits(pll_usb1, 1, 2))

\* Usb1Pll::enabled
Usb1Pll_enabled == get_bit(pll_usb1, 12) /\ get_bit(pll_usb1, 13)

\* Ccm::clock_gate on the gate registers g
clock_gate_of(g, gate) ==
    ClockGate_from(get_bits(g[gate[1]], gate[2] * 2, gate[2] * 2 + 2))

\* Ccm::clock_gate
clock_gate(gate) == clock_gate_of(ccgr, gate)

\* set_clock_gate_regs with the field at bit gate.1 instead of bit gate.1 * 2.
set_clock_gate_regs_unscaled(g, gate, state) ==
    [g EXCEPT ![gate[1]] =
        set_bits(@, gate[2], gate[2] + 2, ClockGate_into(state))]

\* Ccm::set_clock_gate, as the new gate registers
set_clock_gate_regs(g, gate, state) ==
    [g EXCEPT ![gate[1]] =
        set_bits(@, gate[2] * 2, gate[2] * 2 + 2, ClockGate_into(state))]

\* check_clock_uart that takes the overclocked PLL to be too fast whatever
\* the divisor.
check_clock_uart_any_divisor ==
    IF UartClockSelector_input = "Oscillator" THEN "Ok"
    ELSE IF ~Usb1Pll_enabled THEN "Disabled"
    ELSE IF Usb1Pll_multiplier = "TwentyTwo" THEN "TooFast"
    ELSE "Ok"

\* <LpUartN<(), ()> as ClockGated>::check_clock
check_clock_uart ==
    IF UartClockSelector_input = "Oscillator" THEN "Ok"
    ELSE IF ~Usb1Pll_enabled THEN "Disabled"
    ELSE IF Usb1Pll_multiplier = "TwentyTwo" /\ UartClockSelector_divisor = 1
         THEN "TooFast"
    ELSE "Ok"

\* <T as ClockGated>::check_clock
check_clock(p) == IF p = "Iomuxc" THEN "Ok" ELSE check_clock_uart

\* UART_CLOCK_GATES.iter().map(clock_gate).any(|g| g != Disabled), from the
\* i-th gate on: any stops at the first gate that is not Disabled, and a
\* gate it decodes may panic.
RECURSIVE uart_gates_any(_)
uart_gates_any(i) ==
    IF i > Len(UART_CLOCK_GATES) THEN "false"
    ELSE IF clock_gate(UART_CLOCK_GATES[i]) = "panic" THEN "panic"
    ELSE IF clock_gate(UART_CLOCK_GATES[i]) # "Disabled" THEN "true"
    ELSE uart_gates_any(i + 1)

\* debug::progress: the counter after the call made with the counter at c
progress_counter(c) == IF c >= 10 THEN c ELSE (c + 1) % 256

PROGRESS_SHIFT == <<18, 19, 23, 22, 17, 16, 26, 27, 24, 25>>

\* debug::progress: the GPIO6 bits after the call made with the counter at c
progress_gpio(c, g) == IF c >= 10 THEN g ELSE g \cup {PROGRESS_SHIFT[c + 1]}

\* -------------------------------------------------------------------- Init

\* What the boot firmware may leave in pll_usb1, which this crate only reads.
Usb1PllImages == SUBSET {1, 12, 13}

\* The gates next to the exercised ones that the boot firmware may leave on.
FirmwareGates ==
    <<<<5, 11, "Enabled">>, <<0, 15, "EnabledDuringWake">>,
      <<4, 0, "Enabled">>, <<4, 2, "EnabledDuringWake">>,
      <<3, 2, "Enabled">>>>

RECURSIVE firmware_gates(_, _)
firmware_gates(g, i) ==
    IF i > Len(FirmwareGates) THEN g
    ELSE firmware_gates(
            set_clock_gate_regs(g, <<FirmwareGates[i][1], FirmwareGates[i][2]>>,
                                FirmwareGates[i][3]),
            i + 1)

\* What the boot firmware may leave in cbcmr: any legal selection of the two
\* feeder muxes.
CbcmrImages ==
    {set_bits(set_bits({}, 12, 14, p2), 18, 20, pre) : p2 \in 0 .. 2, pre \in 0 .. 3}

\* One of them: PERIPH_CLK2_SEL on the USB1 PLL, PRE_PERIPH_CLK_SEL on the ARM PLL.
CbcmrBoot == set_bits(set_bits({}, 12, 14, 0), 18, 20, 3)

\* What the boot firmware may leave in cscdr1.
Cscdr1Images ==
    {set_bits(set_bits({}, 0, 6, podf), 6, 7, sel) :
        podf \in 0 .. (MaxDivisor - 1), sel \in 0 .. 1}

\* One of them: the UART mux on the USB1 PLL, divided by one.
Cscdr1Boot == set_bits(set_bits({}, 0, 6, 0), 6, 7, 0)

\* What the boot firmware may leave in the gate registers: every UART gate
\* off, the IOMUXC gate in one of the states ios, the firmware gates on or not.
CcgrImages(ios) ==
    {[(IF fw THEN firmware_gates([r \in 0 .. 7 |-> {}], 1)
             ELSE [r \in 0 .. 7 |-> {}])
        EXCEPT ![4] = set_bits(@, 2, 4, ClockGate_into(io))] :
        fw \in BOOLEAN, io \in ios}

\* The registers as the boot firmware hands them over: the core clock runs
\* from the PRE_PERIPH_CLK_SEL path with the ARM PLL on, no switch is busy.
InitHw(cbcmrs, cscdr1s, usb1s, ccgrs) ==
    /\ cbcdr = set_bits({}, 25, 26, PeriphClockInput_into("PrePeriphClock"))
    /\ cbcmr \in cbcmrs
    /\ cscdr1 \in cscdr1s
    /\ cdhipr = {}
    /\ ccgr \in ccgrs
    /\ pll_arm = {13}
    /\ pll_usb1 \in usb1s
    /\ gpio6 = {}

InitSw ==
    /\ CCM_INIT = FALSE
    /\ PROGRESS_COUNTER = 0
    /\ ccm = 0
    /\ borrow = "none"
    /\ handles = [p \in Uarts \cup {"Iomuxc"} |-> 0]
    /\ gate_writes = 0
    /\ pc = "idle"
    /\ ret = [op |-> "reset", arg |-> <<>>, res |-> "Ok"]

\* The pin controller before any pin is asked for: the flag of the pin is
\* clear, the pad mux is on one of the functions muxes.
InitIomuxc(muxes) ==
    /\ GPIO_AD_B0_02_INIT = FALSE
    /\ sw_mux_ctl \in muxes
    /\ pins = [GpioAdB0_02 |-> 0, GpioAdB0_02LpUartTx |-> 0]
    /\ pins_issued = 0

\* The types T and R of a handle LpUartN<T, R>: () or a pin type.  The TX
\* marker trait of LPUART6 is implemented by GpioAdB0_02LpUartTx; the marker
\* traits are public, so a client's own type may implement any of them, and
\* () can implement none (neither the trait nor () is the client's).
TxPins(p) ==
    IF p = "LpUart6" THEN {"GpioAdB0_02LpUartTx", "ClientPin"} ELSE {"ClientPin"}

RxPins(p) == {"ClientPin"}

Unbound == <<"()", "()">>

TypeStates ==
    ({"()", "GpioAdB0_02LpUartTx", "ClientPin"} \X {"()", "ClientPin"}) \ {Unbound}

\* The UARTs before any is enabled: no handle, the registers at the values
\* they hold at reset (baud: osr 15 and sbr 4, stat: tdre and tc, ctrl: 0),
\* since the firmware leaves every UART gate off.
InitLpuart ==
    /\ LpUartRegs = [p \in Uarts |->
                        [baud |-> set_bits(set_bits({}, 0, 13, 4), 24, 29, 15),
                         stat |-> {22, 23},
                         ctrl |-> {},
                         data |-> {12}]]
    /\ typed = [p \in Uarts |-> [ts \in TypeStates |-> 0]]
    /\ write_str_rest = <<>>
    /\ wire = [p \in Uarts |-> <<>>]

\* The callers of Ccm::new, none of which has started.
InitRace ==
    /\ callers = [t \in 1 .. MaxCallers |-> [at |-> "call", was_init |-> FALSE]]
    /\ progress_calls = [t \in 1 .. MaxCallers |-> [at |-> "call", idx |-> 0]]

\* ----------------------------------------------------------------- helpers

Ret(op, arg, res) == [op |-> op, arg |-> arg, res |-> res]

\* The last call was op(arg) and its result res.
RetIs(op, arg, res) == ret.op = op /\ ret.res = res /\ ret.arg = arg

\* A panic: the handler halts the program for good.
Halt(op, arg) ==
    /\ pc' = "panic"
    /\ ret' = Ret(op, arg, "panic")
    /\ UNCHANGED <<hw, statics, prog>>

\* A call on the Ccm needs the Ccm, with no sub-handle borrowing it.
CanCall == pc = "idle" /\ ccm >= 1 /\ borrow = "none"

\* ------------------------------------------------------------ Ccm lifetime

\* Ccm::new without the test of the flag it swaps.
Ccm_new_unguarded ==
    /\ pc = "idle"
    /\ CCM_INIT' = TRUE
    /\ ccm' = ccm + 1
    /\ ret' = Ret("Ccm_new", <<>>, "Ok")
    /\ UNCHANGED <<hw, PROGRESS_COUNTER, borrow, handles, gate_writes, pc>>

\* Ccm::new
Ccm_new ==
    /\ pc = "idle"
    /\ CCM_INIT' = TRUE
    /\ IF CCM_INIT
       THEN /\ pc' = "panic"
            /\ ret' = Ret("Ccm_new", <<>>, "panic")
            /\ UNCHANGED <<hw, PROGRESS_COUNTER, prog>>
       ELSE /\ ccm' = ccm + 1
            /\ ret' = Ret("Ccm_new", <<>>, "Ok")
            /\ UNCHANGED <<hw, PROGRESS_COUNTER, borrow, handles, gate_writes, pc>>

\* Ccm::new in caller t, with a load and no store in place of the swap.
Ccm_new_swap_load(t) ==
    /\ callers[t].at = "call"
    /\ callers' = [callers EXCEPT ![t] = [at |-> "swapped", was_init |-> CCM_INIT]]
    /\ UNCHANGED <<CCM_INIT, ccm, ret>>

\* Ccm::new in caller t: let was_init = CCM_INIT.swap(true, Acquire)
Ccm_new_swap(t) ==
    /\ callers[t].at = "call"
    /\ CCM_INIT' = TRUE
    /\ callers' = [callers EXCEPT ![t] = [at |-> "swapped", was_init |-> CCM_INIT]]
    /\ UNCHANGED <<ccm, ret>>

\* Ccm::new in caller t: the test of was_init, then the panic or the return
Ccm_new_test(t) ==
    /\ callers[t].at = "swapped"
    /\ IF callers[t].was_init
       THEN /\ callers' = [callers EXCEPT ![t].at = "panicked"]
            /\ ret' = Ret("Ccm_new", <<t>>, "panic")
            /\ ccm' = ccm
       ELSE /\ callers' = [callers EXCEPT ![t].at = "returned"]
            /\ ret' = Ret("Ccm_new", <<t>>, "Ok")
            /\ ccm' = ccm + 1
    /\ UNCHANGED CCM_INIT

\* The Ccm caller t got goes out of scope: CCM_INIT stays set.
Ccm_new_drop(t) ==
    /\ callers[t].at = "returned"
    /\ callers' = [callers EXCEPT ![t].at = "dropped"]
    /\ ccm' = ccm - 1
    /\ UNCHANGED <<CCM_INIT, ret>>

\* A Ccm value goes out of scope.  Ccm has no Drop impl: CCM_INIT stays set.
Ccm_drop ==
    /\ pc = "idle"
    /\ ccm >= 1
    /\ borrow = "none"
    /\ ccm' = ccm - 1
    /\ UNCHANGED <<hw, statics, borrow, handles, gate_writes, pc, ret>>

\* ---------------------------------------------------------- mux accessors

\* Ccm::periph_clock_selector_mut
periph_clock_selector_mut ==
    /\ CanCall
    /\ borrow' = "PeriphClockSelector"
    /\ ret' = Ret("periph_clock_selector_mut", <<>>, "Ok")
    /\ UNCHANGED <<hw, statics, ccm, handles, gate_writes, pc>>

\* periph_clock2_selector_mut with the test of pre_periph_clock_selector_mut.
periph_clock2_selector_mut_swapped ==
    /\ CanCall
    /\ IF PeriphClockSelector_input # "PrePeriphClock"
       THEN /\ borrow' = "PeriphClock2Selector"
            /\ ret' = Ret("periph_clock2_selector_mut", <<>>, "Ok")
       ELSE /\ borrow' = borrow
            /\ ret' = Ret("periph_clock2_selector_mut", <<>>, "InUse")
    /\ UNCHANGED <<hw, statics, ccm, handles, gate_writes, pc>>

\* Ccm::periph_clock2_selector_mut
periph_clock2_selector_mut ==
    /\ CanCall
    /\ IF PeriphClockSelector_input = "panic"
       THEN Halt("periph_clock2_selector_mut", <<>>)
       ELSE /\ IF PeriphClockSelector_input # "PeriphClock2"
               THEN /\ borrow' = "PeriphClock2Selector"
                    /\ ret' = Ret("periph_clock2_selector_mut", <<>>, "Ok")
               ELSE /\ borrow' = borrow
                    /\ ret' = Ret("periph_clock2_selector_mut", <<>>, "InUse")
            /\ UNCHANGED <<hw, statics, ccm, handles, gate_writes, pc>>

\* pre_periph_clock_selector_mut without the test of the primary mux.
pre_periph_clock_selector_mut_unchecked ==
    /\ CanCall
    /\ borrow' = "PrePeriphClockSelector"
    /\ ret' = Ret("pre_periph_clock_selector_mut", <<>>, "Ok")
    /\ UNCHANGED <<hw, statics, ccm, handles, gate_writes, pc>>

\* Ccm::pre_periph_clock_selector_mut
pre_periph_clock_selector_mut ==
    /\ CanCall
    /\ IF PeriphClockSelector_input = "panic"
       THEN Halt("pre_periph_clock_selector_mut", <<>>)
       ELSE /\ IF PeriphClockSelector_input # "PrePeriphClock"
               THEN /\ borrow' = "PrePeriphClockSelector"
                    /\ ret' = Ret("pre_periph_clock_selector_mut", <<>>, "Ok")
               ELSE /\ borrow' = borrow
                    /\ ret' = Ret("pre_periph_clock_selector_mut", <<>>, "InUse")
            /\ UNCHANGED <<hw, statics, ccm, handles, gate_writes, pc>>

\* Ccm::uart_clock_selector_mut
uart_clock_selector_mut ==
    /\ CanCall
    /\ IF uart_gates_any(1) = "panic"
       THEN Halt("uart_clock_selector_mut", <<>>)
       ELSE /\ IF uart_gates_any(1) = "true"
               THEN /\ borrow' = borrow
                    /\ ret' = Ret("uart_clock_selector_mut", <<>>, "InUse")
               ELSE /\ borrow' = "UartClockSelector"
                    /\ ret' = Ret("uart_clock_selector_mut", <<>>, "Ok")
            /\ UNCHANGED <<hw, statics, ccm, handles, gate_writes, pc>>

\* arm_pll_mut that looks at the PRE_PERIPH_CLK_SEL input alone.
arm_pll_mut_pre_only ==
    /\ CanCall
    /\ IF PrePeriphClockSelector_input = "ArmPll"
       THEN /\ borrow' = borrow
            /\ ret' = Ret("arm_pll_mut", <<>>, "InUse")
       ELSE /\ borrow' = "ArmPll"
            /\ ret' = Ret("arm_pll_mut", <<>>, "Ok")
    /\ UNCHANGED <<hw, statics, ccm, handles, gate_writes, pc>>

\* Ccm::arm_pll_mut
arm_pll_mut ==
    /\ CanCall
    /\ IF PrePeriphClockSelector_input = "panic"
          \/ (PrePeriphClockSelector_input = "ArmPll"
              /\ PeriphClockSelector_input = "panic")
       THEN Halt("arm_pll_mut", <<>>)
       ELSE /\ IF PrePeriphClockSelector_input = "ArmPll"
                  /\ PeriphClockSelector_input = "PrePeriphClock"
               THEN /\ borrow' = borrow
                    /\ ret' = Ret("arm_pll_mut", <<>>, "InUse")
               ELSE /\ borrow' = "ArmPll"
                    /\ ret' = Ret("arm_pll_mut", <<>>, "Ok")
            /\ UNCHANGED <<hw, statics, ccm, handles, gate_writes, pc>>

\* The sub-handle borrowed from the Ccm goes out of scope.
release ==
    /\ pc = "idle"
    /\ borrow # "none"
    /\ borrow' = "none"
    /\ UNCHANGED <<hw, statics, ccm, handles, gate_writes, pc, ret>>

\* ------------------------------------------------------- mux and PLL writes

\* PeriphClockSelector::set_input: the write; the call then spins on
\* cdhipr[periph_clk_sel_busy], which the hardware may have raised.
PeriphClockSelector_set_input ==
    /\ pc = "idle"
    /\ borrow = "PeriphClockSelector"
    /\ \E input \in PeriphClockInputs, busy \in BOOLEAN :
          /\ cbcdr' = set_bits(cbcdr, 25, 26, PeriphClockInput_into(input))
          /\ cdhipr' = set_bit(cdhipr, 5, busy \/ get_bit(cdhipr, 5))
          /\ ret' = Ret("PeriphClockSelector_set_input", <<input>>, "spinning")
    /\ pc' = "PeriphClockSelector_set_input"
    /\ UNCHANGED <<cbcmr, cscdr1, ccgr, pll_arm, pll_usb1, gpio6, statics, prog>>

\* PeriphClockSelector::set_input: the busy bit reads clear, the call returns.
PeriphClockSelector_set_input_return ==
    /\ pc = "PeriphClockSelector_set_input"
    /\ ~get_bit(cdhipr, 5)
    /\ pc' = "idle"
    /\ ret' = [ret EXCEPT !.res = "Ok"]
    /\ UNCHANGED <<hw, statics, prog>>

\* PeriphClock2Selector::set_input: the write; the call then spins on
\* cdhipr[periph2_clk_sel_busy].
PeriphClock2Selector_set_input ==
    /\ pc = "idle"
    /\ borrow = "PeriphClock2Selector"
    /\ \E input \in PeriphClock2Inputs, busy \in BOOLEAN :
          /\ cbcmr' = set_bits(cbcmr, 12, 14, PeriphClock2Input_into(input))
          /\ cdhipr' = set_bit(cdhipr, 3, busy \/ get_bit(cdhipr, 3))
          /\ ret' = Ret("PeriphClock2Selector_set_input", <<input>>, "spinning")
    /\ pc' = "PeriphClock2Selector_set_input"
    /\ UNCHANGED <<cbcdr, cscdr1, ccgr, pll_arm, pll_usb1, gpio6, statics, prog>>

\* PeriphClock2Selector_set_input_return without the read of the busy bit.
PeriphClock2Selector_set_input_return_unchecked ==
    /\ pc = "PeriphClock2Selector_set_input"
    /\ pc' = "idle"
    /\ ret' = [ret EXCEPT !.res = "Ok"]
    /\ UNCHANGED <<hw, statics, prog>>

\* PeriphClock2Selector::set_input: the busy bit reads clear, the call returns.
PeriphClock2Selector_set_input_return ==
    /\ pc = "PeriphClock2Selector_set_input"
    /\ ~get_bit(cdhipr, 3)
    /\ pc' = "idle"
    /\ ret' = [ret EXCEPT !.res = "Ok"]
    /\ UNCHANGED <<hw, statics, prog>>

\* PrePeriphClockSelector::set_input
PrePeriphClockSelector_set_input ==
    /\ pc = "idle"
    /\ borrow = "PrePeriphClockSelector"
    /\ \E input \in PrePeriphClockInputs :
          /\ cbcmr' = set_bits(cbcmr, 18, 20, PrePeriphClockInput_into(input))
          /\ ret' = Ret("PrePeriphClockSelector_set_input", <<input>>, "Ok")
    /\ UNCHANGED <<cbcdr, cscdr1, cdhipr, ccgr, pll_arm, pll_usb1, gpio6,
                   statics, prog, pc>>

\* UartClockSelector_set_input that writes the register instead of updating it.
UartClockSelector_set_input_overwrite ==
    /\ pc = "idle"
    /\ borrow = "UartClockSelector"
    /\ \E input \in UartClockInputs :
          /\ cscdr1' = set_bits({}, 6, 7, UartClockInput_into(input))
          /\ ret' = Ret("UartClockSelector_set_input", <<input>>, "Ok")
    /\ UNCHANGED <<cbcdr, cbcmr, cdhipr, ccgr, pll_arm, pll_usb1, gpio6,
                   statics, prog, pc>>

\* UartClockSelector::set_input
UartClockSelector_set_input ==
    /\ pc = "idle"
    /\ borrow = "UartClockSelector"
    /\ \E input \in UartClockInputs :
          /\ cscdr1' = set_bits(cscdr1, 6, 7, UartClockInput_into(input))
          /\ ret' = Ret("UartClockSelector_set_input", <<input>>, "Ok")
    /\ UNCHANGED <<cbcdr, cbcmr, cdhipr, ccgr, pll_arm, pll_usb1, gpio6,
                   statics, prog, pc>>

\* UartClockSelector::set_divisor: divisor - 1 underflows for 0 (a panic in a
\* debug build, 2^32 - 1 in a release build, which set_bits then rejects),
\* and set_bits panics on a value that does not fit the six bits.
UartClockSelector_set_divisor_in(divisors) ==
    /\ pc = "idle"
    /\ borrow = "UartClockSelector"
    /\ \E divisor \in divisors :
          IF divisor = 0 \/ ~fits(0, 6, divisor - 1)
          THEN Halt("UartClockSelector_set_divisor", <<divisor>>)
          ELSE /\ cscdr1' = set_bits(cscdr1, 0, 6, divisor - 1)
               /\ ret' = Ret("UartClockSelector_set_divisor", <<divisor>>, "Ok")
               /\ UNCHANGED <<cbcdr, cbcmr, cdhipr, ccgr, pll_arm, pll_usb1,
                              gpio6, statics, prog, pc>>

\* UartClockSelector::set_divisor, called with the divisors the other
\* specifications use.
UartClockSelector_set_divisor == UartClockSelector_set_divisor_in(0 .. MaxDivisor)

\* ArmPll::disable, as pll_arm after its three writes: set bypass, clear
\* enable, set powerdown.
ArmPll_disable_regs(r) == ((r \cup {16}) \ {13}) \cup {12}

\* ArmPll_disable with the write that clears pll_arm[enable] made first.
ArmPll_disable_enable_first ==
    /\ pc = "idle"
    /\ borrow = "ArmPll"
    /\ pll_arm' = pll_arm \ {13}
    /\ pc' = "ArmPll_disable_enable"
    /\ ret' = Ret("ArmPll_disable", <<>>, "running")
    /\ UNCHANGED <<cbcdr, cbcmr, cscdr1, cdhipr, ccgr, pll_usb1, gpio6,
                   statics, prog>>

\* ArmPll::disable, its first write: pll_arm.set.write(1 << 16), bypass
ArmPll_disable ==
    /\ pc = "idle"
    /\ borrow = "ArmPll"
    /\ pll_arm' = pll_arm \cup {16}
    /\ pc' = "ArmPll_disable_enable"
    /\ ret' = Ret("ArmPll_disable", <<>>, "running")
    /\ UNCHANGED <<cbcdr, cbcmr, cscdr1, cdhipr, ccgr, pll_usb1, gpio6,
                   statics, prog>>

\* ArmPll::disable, its second write: pll_arm.clear.write(1 << 13), enable
ArmPll_disable_enable ==
    /\ pc = "ArmPll_disable_enable"
    /\ pll_arm' = pll_arm \ {13}
    /\ pc' = "ArmPll_disable_powerdown"
    /\ UNCHANGED <<cbcdr, cbcmr, cscdr1, cdhipr, ccgr, pll_usb1, gpio6,
                   statics, prog, ret>>

\* ArmPll::disable, its third write: pll_arm.set.write(1 << 12), powerdown;
\* the call returns.
ArmPll_disable_powerdown ==
    /\ pc = "ArmPll_disable_powerdown"
    /\ pll_arm' = pll_arm \cup {12}
    /\ pc' = "idle"
    /\ ret' = [ret EXCEPT !.res = "Ok"]
    /\ UNCHANGED <<cbcdr, cbcmr, cscdr1, cdhipr, ccgr, pll_usb1, gpio6,
                   statics, prog>>

\* The hardware finishes a mux switch: a busy bit of cdhipr clears.
cdhipr_clear ==
    /\ pc # "panic"
    /\ \E b \in cdhipr : cdhipr' = cdhipr \ {b}
    /\ UNCHANGED <<cbcdr, cbcmr, cscdr1, ccgr, pll_arm, pll_usb1, gpio6,
                   statics, prog, pc, ret>>

\* ------------------------------------------------------ enable and disable

\* Ccm::enable that takes only an Enabled gate to be in use.
Ccm_enable_wake(p) ==
    /\ CanCall
    /\ IF clock_gate(GATE(p)) = "Enabled"
       THEN /\ ret' = Ret("Ccm_enable", <<p>>, "InUse")
            /\ UNCHANGED <<hw, statics, prog, pc>>
       ELSE /\ ccgr' = set_clock_gate_regs(ccgr, GATE(p), "Enabled")
            /\ handles' = [handles EXCEPT ![p] = @ + 1]
            /\ ret' = Ret("Ccm_enable", <<p>>, "Ok")
            /\ UNCHANGED <<cbcdr, cbcmr, cscdr1, cdhipr, pll_arm, pll_usb1,
                           gpio6, statics, ccm, borrow, gate_writes, pc>>

\* Ccm::enable without the test of the gate.
Ccm_enable_unchecked(p) ==
    /\ CanCall
    /\ ccgr' = set_clock_gate_regs(ccgr, GATE(p), "Enabled")
    /\ handles' = [handles EXCEPT ![p] = @ + 1]
    /\ ret' = Ret("Ccm_enable", <<p>>, "Ok")
    /\ UNCHANGED <<cbcdr, cbcmr, cscdr1, cdhipr, pll_arm, pll_usb1,
                   gpio6, statics, ccm, borrow, gate_writes, pc>>

\* Ccm::enable::<p>
Ccm_enable(p) ==
    /\ CanCall
    /\ IF clock_gate(GATE(p)) = "panic"
       THEN Halt("Ccm_enable", <<p>>)
       ELSE IF clock_gate(GATE(p)) # "Disabled"
       THEN /\ ret' = Ret("Ccm_enable", <<p>>, "InUse")
            /\ UNCHANGED <<hw, statics, prog, pc>>
       ELSE /\ ccgr' = set_clock_gate_regs(ccgr, GATE(p), "Enabled")
            /\ handles' = [handles EXCEPT ![p] = @ + 1]
            /\ ret' = Ret("Ccm_enable", <<p>>, "Ok")
            /\ UNCHANGED <<cbcdr, cbcmr, cscdr1, cdhipr, pll_arm, pll_usb1,
                           gpio6, statics, ccm, borrow, gate_writes, pc>>

\* Ccm::disable that consumes the handle and leaves its gate as it is.
Ccm_disable_keeps_gate(p) ==
    /\ CanCall
    /\ handles[p] >= 1
    /\ handles' = [handles EXCEPT ![p] = @ - 1]
    /\ ret' = Ret("Ccm_disable", <<p>>, "Ok")
    /\ UNCHANGED <<hw, statics, ccm, borrow, gate_writes, pc>>

\* Ccm::disable that takes a handle of p of any type, by reference when it
\* is one with pins.
Ccm_disable_by_ref(p) ==
    /\ CanCall
    /\ handles[p] >= 1 \/ \E ts \in TypeStates : typed[p][ts] >= 1
    /\ handles' = [handles EXCEPT ![p] = IF @ >= 1 THEN @ - 1 ELSE @]
    /\ ccgr' = set_clock_gate_regs(ccgr, GATE(p), "Disabled")
    /\ ret' = Ret("Ccm_disable", <<p>>, "Ok")
    /\ UNCHANGED <<cbcdr, cbcmr, cscdr1, cdhipr, pll_arm, pll_usb1,
                   gpio6, statics, ccm, borrow, gate_writes, pc>>

\* Ccm::disable(instance of p): the handle is consumed.
Ccm_disable(p) ==
    /\ CanCall
    /\ handles[p] >= 1
    /\ handles' = [handles EXCEPT ![p] = @ - 1]
    /\ ccgr' = set_clock_gate_regs(ccgr, GATE(p), "Disabled")
    /\ ret' = Ret("Ccm_disable", <<p>>, "Ok")
    /\ UNCHANGED <<cbcdr, cbcmr, cscdr1, cdhipr, pll_arm, pll_usb1,
                   gpio6, statics, ccm, borrow, gate_writes, pc>>

\* A peripheral handle goes out of scope without Ccm::disable: its gate stays.
handle_drop(p) ==
    /\ pc = "idle"
    /\ handles[p] >= 1
    /\ handles' = [handles EXCEPT ![p] = @ - 1]
    /\ UNCHANGED <<hw, statics, ccm, borrow, gate_writes, pc, ret>>

\* ------------------------------------------------------------ gate access

\* Ccm::set_clock_gate (unsafe), called with a gate coordinate of the set gates
set_clock_gate_in(gates) ==
    /\ CanCall
    /\ gate_writes < MaxGateWrites
    /\ gate_writes' = gate_writes + 1
    /\ \E gate \in gates, state \in ClockGates :
          /\ ccgr' = set_clock_gate_regs(ccgr, gate, state)
          /\ ret' = Ret("set_clock_gate", <<gate[1], gate[2], state>>, "Ok")
    /\ UNCHANGED <<cbcdr, cbcmr, cscdr1, cdhipr, pll_arm, pll_usb1,
                   gpio6, statics, ccm, borrow, handles, pc>>

\* Ccm::set_clock_gate (unsafe), called with any coordinate of the gate table
set_clock_gate == set_clock_gate_in((0 .. 7) \X (0 .. 15))

\* Ccm::clock_gate, called by the client
clock_gate_call ==
    /\ CanCall
    /\ \E r \in 0 .. 7, f \in 0 .. 15 :
          IF clock_gate(<<r, f>>) = "panic"
          THEN Halt("clock_gate", <<r, f>>)
          ELSE /\ ret' = Ret("clock_gate", <<r, f>>, clock_gate(<<r, f>>))
               /\ UNCHANGED <<hw, statics, prog, pc>>

\* <p as ClockGated>::check_clock(&ccm), called by the client
check_clock_call(p) ==
    /\ CanCall
    /\ ret' = Ret("check_clock", <<p>>, check_clock(p))
    /\ UNCHANGED <<hw, statics, prog, pc>>

\* --------------------------------------------------------------------- pins

\* Iomuxc::get_pin::<GpioAdB0_02> with a load of the flag in place of the swap.
Iomuxc_get_pin_load ==
    /\ pc = "idle"
    /\ handles["Iomuxc"] >= 1
    /\ IF GPIO_AD_B0_02_INIT
       THEN /\ ret' = Ret("get_pin", <<"GpioAdB0_02">>, "InUse")
            /\ UNCHANGED <<pins, pins_issued>>
       ELSE /\ pins' = [pins EXCEPT !.GpioAdB0_02 = @ + 1]
            /\ pins_issued' = pins_issued + 1
            /\ ret' = Ret("get_pin", <<"GpioAdB0_02">>, "Ok")
    /\ UNCHANGED <<GPIO_AD_B0_02_INIT, sw_mux_ctl>>

\* Iomuxc::get_pin::<GpioAdB0_02> that panics on a set flag, as Ccm::new does.
Iomuxc_get_pin_panics ==
    /\ pc = "idle"
    /\ handles["Iomuxc"] >= 1
    /\ GPIO_AD_B0_02_INIT' = TRUE
    /\ IF GPIO_AD_B0_02_INIT
       THEN /\ ret' = Ret("get_pin", <<"GpioAdB0_02">>, "panic")
            /\ UNCHANGED <<pins, pins_issued>>
       ELSE /\ pins' = [pins EXCEPT !.GpioAdB0_02 = @ + 1]
            /\ pins_issued' = pins_issued + 1
            /\ ret' = Ret("get_pin", <<"GpioAdB0_02">>, "Ok")
    /\ UNCHANGED sw_mux_ctl

\* Iomuxc::get_pin::<GpioAdB0_02>, that is <GpioAdB0_02 as Pin>::new, called on
\* a live Iomuxc handle
Iomuxc_get_pin ==
    /\ pc = "idle"
    /\ handles["Iomuxc"] >= 1
    /\ GPIO_AD_B0_02_INIT' = TRUE
    /\ IF GPIO_AD_B0_02_INIT
       THEN /\ ret' = Ret("get_pin", <<"GpioAdB0_02">>, "InUse")
            /\ UNCHANGED <<pins, pins_issued>>
       ELSE /\ pins' = [pins EXCEPT !.GpioAdB0_02 = @ + 1]
            /\ pins_issued' = pins_issued + 1
            /\ ret' = Ret("get_pin", <<"GpioAdB0_02">>, "Ok")
    /\ UNCHANGED sw_mux_ctl

\* GpioAdB0_02::into_lpuart_tx: the pin is consumed, the pad mux is written
GpioAdB0_02_into_lpuart_tx ==
    /\ pc = "idle"
    /\ pins.GpioAdB0_02 >= 1
    /\ sw_mux_ctl' = 2
    /\ pins' = [pins EXCEPT !.GpioAdB0_02 = @ - 1, !.GpioAdB0_02LpUartTx = @ + 1]
    /\ ret' = Ret("into_lpuart_tx", <<"GpioAdB0_02">>, "Ok")
    /\ UNCHANGED <<GPIO_AD_B0_02_INIT, pins_issued>>

\* A pin value goes out of scope.  No pin type has a Drop impl: the flag of the
\* pin stays set.
pin_drop ==
    /\ pc = "idle"
    /\ \E k \in DOMAIN pins :
          /\ pins[k] >= 1
          /\ pins' = [pins EXCEPT ![k] = @ - 1]
    /\ UNCHANGED <<GPIO_AD_B0_02_INIT, sw_mux_ctl, pins_issued, ret>>

\* ------------------------------------------------------------------ LPUART

\* The arguments set_clocks is called with: a divisor that fits baud[sbr] and
\* one that does not, an oversample of zero and one in range.
BaudDivisors == {250, 8192}
Oversamples == {0, 10}

\* The bytes send is called with.
Bytes == {104}

\* The number of live handles of p of the type LpUartN<ts[1], ts[2]>.
HandleCount(p, ts) == IF ts = Unbound THEN handles[p] ELSE typed[p][ts]

\* A handle of p of the type from is consumed, and one of the type to made.
Rebind(p, from, to) ==
    /\ handles' = [handles EXCEPT ![p] = IF from = Unbound THEN @ - 1 ELSE @]
    /\ typed' = [typed EXCEPT ![p] =
                    [ts \in TypeStates |->
                        typed[p][ts] - (IF ts = from THEN 1 ELSE 0)
                                     + (IF ts = to THEN 1 ELSE 0)]]

\* set_clocks on a handle of any type.
LpUart_set_clocks_any(p) ==
    /\ pc = "idle"
    /\ \E ts \in TypeStates \cup {Unbound} : HandleCount(p, ts) >= 1
    /\ \E divisor \in BaudDivisors, oversample \in Oversamples :
          IF oversample = 0 \/ ~fits(24, 29, oversample - 1) \/ ~fits(0, 13, divisor)
          THEN /\ pc' = "panic"
               /\ ret' = Ret("set_clocks", <<p, divisor, oversample>>, "panic")
               /\ UNCHANGED LpUartRegs
          ELSE /\ LpUartRegs' = [LpUartRegs EXCEPT ![p].baud =
                      set_bits(set_bits(@, 24, 29, oversample - 1), 0, 13, divisor)]
               /\ ret' = Ret("set_clocks", <<p, divisor, oversample>>, "Ok")
               /\ pc' = pc
    /\ UNCHANGED <<handles, typed, pins, write_str_rest, wire>>

\* $name<(), ()>::set_clocks
LpUart_set_clocks(p) ==
    /\ pc = "idle"
    /\ handles[p] >= 1
    /\ \E divisor \in BaudDivisors, oversample \in Oversamples :
          IF oversample = 0 \/ ~fits(24, 29, oversample - 1) \/ ~fits(0, 13, divisor)
          THEN /\ pc' = "panic"
               /\ ret' = Ret("set_clocks", <<p, divisor, oversample>>, "panic")
               /\ UNCHANGED LpUartRegs
          ELSE /\ LpUartRegs' = [LpUartRegs EXCEPT ![p].baud =
                      set_bits(set_bits(@, 24, 29, oversample - 1), 0, 13, divisor)]
               /\ ret' = Ret("set_clocks", <<p, divisor, oversample>>, "Ok")
               /\ pc' = pc
    /\ UNCHANGED <<handles, typed, pins, write_str_rest, wire>>

\* $name<T, R>::set_tx: the handle and the pin are consumed, ctrl[te] is set,
\* the handle with the pin and the old T are returned
LpUart_set_tx(p) ==
    /\ pc = "idle"
    /\ \E ts \in TypeStates \cup {Unbound}, tx \in TxPins(p) :
          /\ HandleCount(p, ts) >= 1
          /\ tx = "GpioAdB0_02LpUartTx" => pins.GpioAdB0_02LpUartTx >= 1
          /\ Rebind(p, ts, <<tx, ts[2]>>)
          /\ pins' = [pins EXCEPT !.GpioAdB0_02LpUartTx =
                         @ - (IF tx = "GpioAdB0_02LpUartTx" THEN 1 ELSE 0)
                           + (IF ts[1] = "GpioAdB0_02LpUartTx" THEN 1 ELSE 0)]
          /\ ret' = Ret("set_tx", <<p, tx>>, "Ok")
    /\ LpUartRegs' = [LpUartRegs EXCEPT ![p].ctrl = set_bit(@, 19, TRUE)]
    /\ UNCHANGED <<pc, write_str_rest, wire>>

\* $name<T, R>::set_rx: the handle and the pin are consumed, the handle with
\* the pin and the old R are returned; no register is written
LpUart_set_rx(p) ==
    /\ pc = "idle"
    /\ \E ts \in TypeStates \cup {Unbound}, rx \in RxPins(p) :
          /\ HandleCount(p, ts) >= 1
          /\ Rebind(p, ts, <<ts[1], rx>>)
          /\ ret' = Ret("set_rx", <<p, rx>>, "Ok")
    /\ UNCHANGED <<LpUartRegs, pins, pc, write_str_rest, wire>>

\* $name<T, R>::send where T is a TX pin, up to its spin on stat[tc]: the
\* byte is written to data, and the transmitter may take stat[tc] down
LpUart_send(p) ==
    /\ pc = "idle"
    /\ \E ts \in TypeStates : ts[1] # "()" /\ typed[p][ts] >= 1
    /\ Len(wire[p]) < MaxWire
    /\ \E byte \in Bytes, busy \in BOOLEAN :
          /\ LpUartRegs' = [LpUartRegs EXCEPT
                                ![p].data = set_bits({}, 0, 8, byte),
                                ![p].stat = set_bit(@, 22, ~busy /\ get_bit(@, 22))]
          /\ wire' = [wire EXCEPT ![p] = Append(@, byte)]
          /\ ret' = Ret("send", <<p, byte>>, "spinning")
    /\ pc' = "LpUart_send"
    /\ UNCHANGED <<handles, typed, pins, write_str_rest>>

\* $name<T, R>::send: the spin ends once stat[tc] is set
LpUart_send_return ==
    /\ pc = "LpUart_send"
    /\ get_bit(LpUartRegs[ret.arg[1]].stat, 22)
    /\ pc' = "idle"
    /\ ret' = [ret EXCEPT !.res = "Ok"]
    /\ UNCHANGED <<handles, typed, pins, LpUartRegs, write_str_rest, wire>>

\* The strings write_str is called with: every one of at most MaxLen bytes
\* out of "h" and "i".
Strings == UNION {[1 .. n -> {104, 105}] : n \in 0 .. MaxLen}

\* write_str on a handle with a TX pin, up to its loop: s.bytes()
LpUart_write_str(p) ==
    /\ pc = "idle"
    /\ \E ts \in TypeStates : ts[1] # "()" /\ typed[p][ts] >= 1
    /\ \E s \in Strings :
          /\ Len(wire[p]) + Len(s) <= MaxWire
          /\ write_str_rest' = s
          /\ IF s = <<>>
             THEN pc' = "idle" /\ ret' = Ret("write_str", <<p, s>>, "Ok")
             ELSE pc' = "write_str" /\ ret' = Ret("write_str", <<p, s>>, "running")
    /\ UNCHANGED <<handles, typed, pins, LpUartRegs, wire>>

\* write_str: the next b of the loop and self.send(b) up to its spin
LpUart_write_str_send ==
    /\ pc = "write_str"
    /\ LET p == ret.arg[1]
           byte == Head(write_str_rest)
       IN  \E busy \in BOOLEAN :
              /\ LpUartRegs' = [LpUartRegs EXCEPT
                                    ![p].data = set_bits({}, 0, 8, byte),
                                    ![p].stat = set_bit(@, 22, ~busy /\ get_bit(@, 22))]
              /\ wire' = [wire EXCEPT ![p] = Append(@, byte)]
    /\ write_str_rest' = Tail(write_str_rest)
    /\ pc' = "write_str_spin"
    /\ UNCHANGED <<handles, typed, pins, ret>>

\* write_str with a send that returns without looking at stat[tc].
LpUart_write_str_send_return_unchecked ==
    /\ pc = "write_str_spin"
    /\ IF write_str_rest = <<>>
       THEN pc' = "idle" /\ ret' = [ret EXCEPT !.res = "Ok"]
       ELSE pc' = "write_str" /\ ret' = ret
    /\ UNCHANGED <<handles, typed, pins, LpUartRegs, write_str_rest, wire>>

\* write_str: the spin of send ends once stat[tc] is set; the loop goes on,
\* or write_str returns Ok(()) after the last byte
LpUart_write_str_send_return ==
    /\ pc = "write_str_spin"
    /\ get_bit(LpUartRegs[ret.arg[1]].stat, 22)
    /\ IF write_str_rest = <<>>
       THEN pc' = "idle" /\ ret' = [ret EXCEPT !.res = "Ok"]
       ELSE pc' = "write_str" /\ ret' = ret
    /\ UNCHANGED <<handles, typed, pins, LpUartRegs, write_str_rest, wire>>

\* The transmitter of p has shifted out what it had: stat[tc] goes up.
stat_tc(p) ==
    /\ ~get_bit(LpUartRegs[p].stat, 22)
    /\ LpUartRegs' = [LpUartRegs EXCEPT ![p].stat = set_bit(@, 22, TRUE)]
    /\ UNCHANGED <<handles, typed, pins, pc, ret, write_str_rest, wire>>

\* A handle of p with a pin goes out of scope, its pins with it.  The handle
\* types have no Drop impl: the gate of p stays as it is.
typed_drop(p) ==
    /\ pc = "idle"
    /\ \E ts \in TypeStates :
          /\ typed[p][ts] >= 1
          /\ typed' = [typed EXCEPT ![p][ts] = @ - 1]
    /\ UNCHANGED <<handles, pins, LpUartRegs, pc, ret, write_str_rest, wire>>

\* ---------------------------------------------------------- debug::progress

PROGRESS_MAX == 10

\* debug::progress in caller t, with > in place of >= in its first test.
debug_progress_load_gt(t) ==
    /\ progress_calls[t].at = "call"
    /\ IF PROGRESS_COUNTER > PROGRESS_MAX
       THEN /\ ret' = Ret("progress", <<>>, "full")
            /\ UNCHANGED progress_calls
       ELSE /\ progress_calls' = [progress_calls EXCEPT ![t].at = "loaded"]
            /\ ret' = ret
    /\ UNCHANGED <<PROGRESS_COUNTER, gpio6>>

\* debug::progress in caller t: the load of PROGRESS_COUNTER and its test
debug_progress_load(t) ==
    /\ progress_calls[t].at = "call"
    /\ IF PROGRESS_COUNTER >= PROGRESS_MAX
       THEN /\ ret' = Ret("progress", <<>>, "full")
            /\ UNCHANGED progress_calls
       ELSE /\ progress_calls' = [progress_calls EXCEPT ![t].at = "loaded"]
            /\ ret' = ret
    /\ UNCHANGED <<PROGRESS_COUNTER, gpio6>>

\* debug::progress in caller t: idx = fetch_add(1) on the AtomicU8, and the
\* test of idx
debug_progress_fetch_add(t) ==
    /\ progress_calls[t].at = "loaded"
    /\ PROGRESS_COUNTER' = (PROGRESS_COUNTER + 1) % 256
    /\ IF PROGRESS_COUNTER >= PROGRESS_MAX
       THEN /\ progress_calls' = [progress_calls EXCEPT ![t].at = "call"]
            /\ ret' = Ret("progress", <<>>, "full")
       ELSE /\ progress_calls' =
                  [progress_calls EXCEPT ![t] = [at |-> "added", idx |-> PROGRESS_COUNTER]]
            /\ ret' = ret
    /\ UNCHANGED gpio6

\* debug::progress in caller t: the table lookup and pin(shift, DR_SET)
debug_progress_pin(t) ==
    /\ progress_calls[t].at = "added"
    /\ gpio6' = gpio6 \cup {PROGRESS_SHIFT[progress_calls[t].idx + 1]}
    /\ progress_calls' = [progress_calls EXCEPT ![t].at = "call"]
    /\ ret' = Ret("progress", <<>>, "Ok")
    /\ UNCHANGED PROGRESS_COUNTER

\* ---------------------------------------------------------------- sanitize

\* Ccm_sanitize with periph_clock2_selector_mut() taken without the unwrap.
Ccm_sanitize_unchecked ==
    /\ CanCall
    /\ cbcmr' = set_bits(cbcmr, 12, 14, PeriphClock2Input_into("Oscillator"))
    /\ \E busy \in BOOLEAN :
          cdhipr' = set_bit(cdhipr, 3, busy \/ get_bit(cdhipr, 3))
    /\ pc' = "sanitize_periph_clock2"
    /\ ret' = Ret("sanitize", <<>>, "spinning")
    /\ UNCHANGED <<cbcdr, cscdr1, ccgr, pll_arm, pll_usb1, gpio6, statics, prog>>

\* Ccm::sanitize, up to the spin of PeriphClock2Selector::set_input:
\* periph_clock2_selector_mut().unwrap().set_input(Oscillator)
Ccm_sanitize ==
    /\ CanCall
    /\ IF PeriphClockSelector_input \in {"panic", "PeriphClock2"}
       THEN Halt("sanitize", <<>>)
       ELSE /\ cbcmr' = set_bits(cbcmr, 12, 14, PeriphClock2Input_into("Oscillator"))
            /\ \E busy \in BOOLEAN :
                  cdhipr' = set_bit(cdhipr, 3, busy \/ get_bit(cdhipr, 3))
            /\ pc' = "sanitize_periph_clock2"
            /\ ret' = Ret("sanitize", <<>>, "spinning")
            /\ UNCHANGED <<cbcdr, cscdr1, ccgr, pll_arm, pll_usb1, gpio6,
                           statics, prog>>

\* Ccm_sanitize_2 that leaves the primary mux where it is.
Ccm_sanitize_2_no_switch ==
    /\ pc = "sanitize_periph_clock2"
    /\ ~get_bit(cdhipr, 3)
    /\ PROGRESS_COUNTER' = progress_counter(PROGRESS_COUNTER)
    /\ gpio6' = progress_gpio(PROGRESS_COUNTER, gpio6)
    /\ pc' = "sanitize_periph_clock"
    /\ UNCHANGED <<cbcdr, cbcmr, cscdr1, cdhipr, ccgr, pll_arm, pll_usb1,
                   CCM_INIT, prog, ret>>

\* Ccm::sanitize, from the end of the first spin to the spin of
\* PeriphClockSelector::set_input: progress(), set_input(PeriphClock2)
Ccm_sanitize_2 ==
    /\ pc = "sanitize_periph_clock2"
    /\ ~get_bit(cdhipr, 3)
    /\ PROGRESS_COUNTER' = progress_counter(PROGRESS_COUNTER)
    /\ gpio6' = progress_gpio(PROGRESS_COUNTER, gpio6)
    /\ cbcdr' = set_bits(cbcdr, 25, 26, PeriphClockInput_into("PeriphClock2"))
    /\ \E busy \in BOOLEAN :
          cdhipr' = set_bit(cdhipr, 5, busy \/ get_bit(cdhipr, 5))
    /\ pc' = "sanitize_periph_clock"
    /\ UNCHANGED <<cbcmr, cscdr1, ccgr, pll_arm, pll_usb1, CCM_INIT, prog, ret>>

\* Ccm::sanitize, from the end of the second spin to the end of
\* ArmPll::disable: progress(), arm_pll_mut().unwrap().disable()
Ccm_sanitize_3 ==
    /\ pc = "sanitize_periph_clock"
    /\ ~get_bit(cdhipr, 5)
    /\ LET c1 == progress_counter(PROGRESS_COUNTER)
           g1 == progress_gpio(PROGRESS_COUNTER, gpio6)
       IN  IF PrePeriphClockSelector_input = "panic"
              \/ (PrePeriphClockSelector_input = "ArmPll"
                  /\ PeriphClockSelector_input \in {"panic", "PrePeriphClock"})
           THEN /\ PROGRESS_COUNTER' = c1
                /\ gpio6' = g1
                /\ pc' = "panic"
                /\ ret' = Ret("sanitize", <<>>, "panic")
                /\ UNCHANGED <<cbcdr, cbcmr, cscdr1, cdhipr, ccgr, pll_arm,
                               pll_usb1, CCM_INIT, prog>>
           ELSE /\ pll_arm' = ArmPll_disable_regs(pll_arm)
                /\ PROGRESS_COUNTER' = c1
                /\ gpio6' = g1
                /\ pc' = "sanitize_arm_pll"
                /\ ret' = Ret("sanitize", <<>>, "running")
                /\ UNCHANGED <<cbcdr, cbcmr, cscdr1, cdhipr, ccgr, pll_usb1,
                               CCM_INIT, prog>>

\* Ccm_sanitize_4 without its progress().
Ccm_sanitize_4_silent ==
    /\ pc = "sanitize_arm_pll"
    /\ pc' = "idle"
    /\ ret' = Ret("sanitize", <<>>, "Ok")
    /\ UNCHANGED <<hw, statics, prog>>

\* Ccm::sanitize, from the end of ArmPll::disable to its return: progress()
Ccm_sanitize_4 ==
    /\ pc = "sanitize_arm_pll"
    /\ PROGRESS_COUNTER' = progress_counter(PROGRESS_COUNTER)
    /\ gpio6' = progress_gpio(PROGRESS_COUNTER, gpio6)
    /\ pc' = "idle"
    /\ ret' = Ret("sanitize", <<>>, "Ok")
    /\ UNCHANGED <<cbcdr, cbcmr, cscdr1, cdhipr, ccgr, pll_arm, pll_usb1,
                   CCM_INIT, prog>>

\* ------------------------------------------------------ startup() -> main()

\* startup: Ccm::new() of the statement Ccm::new().sanitize()
startup_new ==
    /\ boot = "startup"
    /\ Ccm_new
    /\ boot' = "startup_sanitize"
    /\ UNCHANGED <<iomuxc, lpuart, race>>

\* startup: .sanitize() of the statement Ccm::new().sanitize()
startup_sanitize ==
    /\ boot = "startup_sanitize"
    /\ \/ Ccm_sanitize
       \/ Ccm_sanitize_2
       \/ Ccm_sanitize_3
       \/ Ccm_sanitize_4
    /\ boot' = IF pc' = "idle" THEN "startup_drop" ELSE boot
    /\ UNCHANGED <<iomuxc, lpuart, race>>

\* startup: the temporary Ccm is dropped at the end of the statement, and
\* main() is called.
startup_main ==
    /\ boot = "startup_drop"
    /\ Ccm_drop
    /\ boot' = "main"
    /\ UNCHANGED <<iomuxc, lpuart, race>>

\* main: let mut ccm = Ccm::new();
main_new ==
    /\ boot = "main"
    /\ Ccm_new
    /\ boot' = "main_ccm"
    /\ UNCHANGED <<iomuxc, lpuart, race>>

\* ----------------------------------------------------------- specifications

\* A call on the clock controller made outside the boot path.
Api(A) == A /\ UNCHANGED <<boot, iomuxc, lpuart, race>>

\* A call on the pin controller or on a pin.
Io(A) == A /\ UNCHANGED <<hw, statics, prog, boot, pc, lpuart, race>>

\* The clock tree: the safe mux and PLL API, called in any order by a client
\* that starts with no Ccm.
Init ==
    /\ InitHw(CbcmrImages, Cscdr1Images, {{12, 13}}, CcgrImages({"Disabled"}))
    /\ InitSw
    /\ InitIomuxc({5})
    /\ InitLpuart
    /\ InitRace
    /\ boot = "api"

Next ==
    \/ Api(Ccm_new)
    \/ Api(Ccm_drop)
    \/ Api(periph_clock_selector_mut)
    \/ Api(periph_clock2_selector_mut)
    \/ Api(pre_periph_clock_selector_mut)
    \/ Api(uart_clock_selector_mut)
    \/ Api(arm_pll_mut)
    \/ Api(release)
    \/ Api(PeriphClockSelector_set_input)
    \/ Api(PeriphClockSelector_set_input_return)
    \/ Api(PeriphClock2Selector_set_input)
    \/ Api(PeriphClock2Selector_set_input_return)
    \/ Api(PrePeriphClockSelector_set_input)
    \/ Api(UartClockSelector_set_input)
    \/ Api(UartClockSelector_set_divisor)
    \/ Api(ArmPll_disable)
    \/ Api(ArmPll_disable_enable)
    \/ Api(ArmPll_disable_powerdown)
    \/ Api(cdhipr_clear)

Spec == Init /\ [][Next]_vars

\* The peripherals: enable and disable, with the UART mux they depend on, on
\* every USB1 PLL setting the firmware may leave.
InitPeriph ==
    /\ InitHw({CbcmrBoot}, Cscdr1Images, Usb1PllImages, CcgrImages(ClockGates))
    /\ InitSw
    /\ InitIomuxc({5})
    /\ InitLpuart
    /\ InitRace
    /\ boot = "api"

NextPeriph ==
    \/ Api(Ccm_new)
    \/ Api(Ccm_drop)
    \/ Api(uart_clock_selector_mut)
    \/ Api(release)
    \/ Api(UartClockSelector_set_input)
    \/ Api(UartClockSelector_set_divisor)
    \/ Api(\E p \in Exercised : Ccm_enable(p))
    \/ Api(\E p \in Exercised : Ccm_disable(p))
    \/ Api(\E p \in Exercised : handle_drop(p))
    \/ Api(\E p \in Exercised : check_clock_call(p))

SpecPeriph == InitPeriph /\ [][NextPeriph]_vars

\* The gate table: the unsafe set_clock_gate on every gate coordinate.
InitGate ==
    /\ InitHw({CbcmrBoot}, {Cscdr1Boot}, {{12, 13}}, CcgrImages({"Disabled"}))
    /\ InitSw
    /\ InitIomuxc({5})
    /\ InitLpuart
    /\ InitRace
    /\ boot = "api"

NextGate ==
    \/ Api(Ccm_new)
    \/ Api(set_clock_gate)

SpecGate == InitGate /\ [][NextGate]_vars

\* The boot path: startup() constructs and sanitizes a Ccm, then calls
\* main(), on every register image the firmware may leave.
InitBoot ==
    /\ InitHw(CbcmrImages, Cscdr1Images, Usb1PllImages, CcgrImages(ClockGates))
    /\ InitSw
    /\ InitIomuxc({5})
    /\ InitLpuart
    /\ InitRace
    /\ boot = "startup"

NextBoot ==
    \/ startup_new
    \/ startup_sanitize
    \/ startup_main
    \/ main_new
    \/ Api(cdhipr_clear)

SpecBoot == InitBoot /\ [][NextBoot]_vars

\* sanitize called by a client, at any point: before or after it has enabled
\* peripherals and repointed the primary mux, and more than once.
InitSanitize ==
    /\ InitHw(CbcmrImages, {Cscdr1Boot}, {{12, 13}}, CcgrImages({"Disabled"}))
    /\ InitSw
    /\ InitIomuxc({5})
    /\ InitLpuart
    /\ InitRace
    /\ boot = "api"

NextSanitize ==
    \/ Api(Ccm_new)
    \/ Api(\E p \in Exercised : Ccm_enable(p))
    \/ Api(periph_clock_selector_mut)
    \/ Api(release)
    \/ Api(PeriphClockSelector_set_input)
    \/ Api(PeriphClockSelector_set_input_return)
    \/ Api(Ccm_sanitize)
    \/ Api(Ccm_sanitize_2)
    \/ Api(Ccm_sanitize_3)
    \/ Api(Ccm_sanitize_4)
    \/ Api(cdhipr_clear)

SpecSanitize == InitSanitize /\ [][NextSanitize]_vars

\* The UART post-divider: set_divisor on every content of cscdr1[0..7] and
\* with every divisor the field holds, zero, and the first ones past it.
DivisorInputs == 0 .. 66

Cscdr1Contents ==
    {set_bits(set_bits({}, 0, 6, podf), 6, 7, sel) : podf \in 0 .. 63, sel \in 0 .. 1}

InitDivisor ==
    /\ InitHw({CbcmrBoot}, Cscdr1Contents, {{12, 13}}, CcgrImages({"Disabled"}))
    /\ InitSw
    /\ InitIomuxc({5})
    /\ InitLpuart
    /\ InitRace
    /\ boot = "api"

NextDivisor ==
    \/ Api(Ccm_new)
    \/ Api(uart_clock_selector_mut)
    \/ Api(UartClockSelector_set_divisor_in(DivisorInputs))

SpecDivisor == InitDivisor /\ [][NextDivisor]_vars

\* A call on a UART handle, or a step of a UART.
Uart(A) ==
    A /\ UNCHANGED <<hw, statics, ccm, borrow, gate_writes, boot,
                     GPIO_AD_B0_02_INIT, sw_mux_ctl, pins_issued, race>>

\* A step of one of the callers of debug::progress.
Debug(A) ==
    A /\ UNCHANGED <<cbcdr, cbcmr, cscdr1, cdhipr, ccgr, pll_arm, pll_usb1,
                     CCM_INIT, prog, boot, pc, iomuxc, lpuart, callers>>

\* The UART the example of lib.rs drives, LPUART6, from enable to send, with
\* the pin of its TX pad and with pins of the client's own.
UartClients == {"LpUart6"}

InitUart ==
    /\ InitHw({CbcmrBoot}, {Cscdr1Boot}, {{12, 13}}, CcgrImages({"Disabled"}))
    /\ InitSw
    /\ InitIomuxc({5})
    /\ InitLpuart
    /\ InitRace
    /\ boot = "api"

NextUart ==
    \/ Api(Ccm_new)
    \/ Api(\E p \in UartClients \cup {"Iomuxc"} : Ccm_enable(p))
    \/ Api(\E p \in UartClients : Ccm_disable(p))
    \/ Api(uart_clock_selector_mut)
    \/ Api(release)
    \/ Io(Iomuxc_get_pin)
    \/ Io(GpioAdB0_02_into_lpuart_tx)
    \/ Uart(\E p \in UartClients : LpUart_set_clocks(p))
    \/ Uart(\E p \in UartClients : LpUart_set_tx(p))
    \/ Uart(\E p \in UartClients : LpUart_set_rx(p))
    \/ Uart(\E p \in UartClients : LpUart_send(p))
    \/ Uart(LpUart_send_return)
    \/ Uart(\E p \in UartClients : stat_tc(p))
    \/ Uart(\E p \in UartClients : typed_drop(p))

SpecUart == InitUart /\ [][NextUart]_vars

\* write_str and send on LPUART6, once it has a TX pin of the client's.
InitWriteStr ==
    /\ InitHw({CbcmrBoot}, {Cscdr1Boot}, {{12, 13}}, CcgrImages({"Disabled"}))
    /\ InitSw
    /\ InitIomuxc({5})
    /\ InitLpuart
    /\ InitRace
    /\ boot = "api"

NextWriteStr ==
    \/ Api(Ccm_new)
    \/ Api(\E p \in UartClients : Ccm_enable(p))
    \/ Uart(\E p \in UartClients : LpUart_set_tx(p))
    \/ Uart(\E p \in UartClients : LpUart_send(p))
    \/ Uart(LpUart_send_return)
    \/ Uart(\E p \in UartClients : LpUart_write_str(p))
    \/ Uart(LpUart_write_str_send)
    \/ Uart(LpUart_write_str_send_return)
    \/ Uart(\E p \in UartClients : stat_tc(p))

SpecWriteStr == InitWriteStr /\ [][NextWriteStr]_vars

\* debug::progress called over and over from the contexts the program has,
\* one or several of the MaxCallers, their steps interleaved in every order.
InitProgress ==
    /\ InitHw({CbcmrBoot}, {Cscdr1Boot}, {{12, 13}}, {[r \in 0 .. 7 |-> {}]})
    /\ InitSw
    /\ InitIomuxc({5})
    /\ InitLpuart
    /\ callers = [t \in 1 .. MaxCallers |-> [at |-> "call", was_init |-> FALSE]]
    /\ progress_calls \in [1 .. MaxCallers ->
                              {[at |-> "call", idx |-> 0], [at |-> "absent", idx |-> 0]}]
    /\ boot = "api"

NextProgress ==
    \/ Debug(\E t \in 1 .. MaxCallers : debug_progress_load(t))
    \/ Debug(\E t \in 1 .. MaxCallers : debug_progress_fetch_add(t))
    \/ Debug(\E t \in 1 .. MaxCallers : debug_progress_pin(t))

SpecProgress == InitProgress /\ [][NextProgress]_vars

\* A step of one of the concurrent callers of Ccm::new.
Race(A) ==
    A /\ UNCHANGED <<hw, PROGRESS_COUNTER, borrow, handles, gate_writes,
                     boot, pc, iomuxc, lpuart, progress_calls>>

\* Ccm::new called from several contexts, their steps interleaved in every
\* order, on every gate image the firmware may leave.
InitRacing ==
    /\ InitHw({CbcmrBoot}, {Cscdr1Boot}, {{12, 13}}, CcgrImages(ClockGates))
    /\ InitSw
    /\ InitIomuxc({5})
    /\ InitLpuart
    /\ InitRace
    /\ boot = "api"

NextRace ==
    \/ Race(\E t \in 1 .. MaxCallers : Ccm_new_swap(t))
    \/ Race(\E t \in 1 .. MaxCallers : Ccm_new_test(t))
    \/ Race(\E t \in 1 .. MaxCallers : Ccm_new_drop(t))

SpecRace == InitRacing /\ [][NextRace]_vars

\* The gate fields the boot firmware may leave at the raw value 2, which
\* From<u32> for ClockGate does not decode: a UART gate at the head and one at
\* the tail of UART_CLOCK_GATES, the IOMUXC gate, and a gate of no peripheral
\* of this crate.
ReservedGates == {<<5, 12>>, <<6, 7>>, <<4, 1>>, <<2, 0>>}

\* The gate registers with one of those fields at the raw value 2.
ReservedGateImages ==
    {[g EXCEPT ![gate[1]] = set_bits(@, gate[2] * 2, gate[2] * 2 + 2, 2)] :
        g \in CcgrImages(ClockGates), gate \in ReservedGates}

\* The gate reads: clock_gate and the operations that decode a gate, on gate
\* registers the firmware left with or without a field at the raw value 2.
InitRead ==
    /\ InitHw({CbcmrBoot}, {Cscdr1Boot}, {{12, 13}},
              CcgrImages(ClockGates) \cup ReservedGateImages)
    /\ InitSw
    /\ InitIomuxc({5})
    /\ InitLpuart
    /\ InitRace
    /\ boot = "api"

NextRead ==
    \/ Api(Ccm_new)
    \/ Api(clock_gate_call)
    \/ Api(uart_clock_selector_mut)
    \/ Api(release)
    \/ Api(\E p \in Exercised : Ccm_enable(p))
    \/ Api(\E p \in Exercised : Ccm_disable(p))

SpecRead == InitRead /\ [][NextRead]_vars

\* The gates of the exercised peripherals and the two fields next to the
\* field of LPUART1 in ccgr[5].
ExercisedGates == {GATE(p) : p \in Exercised} \cup {<<5, 11>>, <<5, 13>>}

\* The gate writes: set_clock_gate, enable and disable on the same gates.
InitWrite ==
    /\ InitHw({CbcmrBoot}, {Cscdr1Boot}, {{12, 13}}, CcgrImages({"Disabled"}))
    /\ InitSw
    /\ InitIomuxc({5})
    /\ InitLpuart
    /\ InitRace
    /\ boot = "api"

NextWrite ==
    \/ Api(Ccm_new)
    \/ Api(set_clock_gate_in(ExercisedGates))
    \/ Api(\E p \in Exercised : Ccm_enable(p))
    \/ Api(\E p \in Exercised : Ccm_disable(p))

SpecWrite == InitWrite /\ [][NextWrite]_vars

\* The UART mux behind the UART gates: the gate of any of the eight UARTs is
\* turned on by enable or by set_clock_gate, the mux is asked for and written.
InitUartMux ==
    /\ InitHw({CbcmrBoot}, {Cscdr1Boot}, {{12, 13}}, CcgrImages({"Disabled"}))
    /\ InitSw
    /\ InitIomuxc({5})
    /\ InitLpuart
    /\ InitRace
    /\ boot = "api"

NextUartMux ==
    \/ Api(Ccm_new)
    \/ Api(set_clock_gate_in({GATE(p) : p \in Uarts} \cup {<<5, 11>>}))
    \/ Api(\E p \in Exercised : Ccm_enable(p))
    \/ Api(uart_clock_selector_mut)
    \/ Api(release)
    \/ Api(UartClockSelector_set_input)
    \/ Api(UartClockSelector_set_divisor)

SpecUartMux == InitUartMux /\ [][NextUartMux]_vars

\* The pins: the Iomuxc handle is enabled, disabled and enabled again, the
\* pin is asked for, turned into the TX pin of LPUART6, and dropped.
InitPin ==
    /\ InitHw({CbcmrBoot}, {Cscdr1Boot}, {{12, 13}}, CcgrImages({"Disabled"}))
    /\ InitSw
    /\ InitIomuxc({2, 5})
    /\ InitLpuart
    /\ InitRace
    /\ boot = "api"

NextPin ==
    \/ Api(Ccm_new)
    \/ Api(\E p \in Exercised : Ccm_enable(p))
    \/ Api(\E p \in Exercised : Ccm_disable(p))
    \/ Api(\E p \in Exercised : handle_drop(p))
    \/ Io(Iomuxc_get_pin)
    \/ Io(GpioAdB0_02_into_lpuart_tx)
    \/ Io(pin_drop)

SpecPin == InitPin /\ [][NextPin]_vars

\* ------------------------------------------------------------------ claims

\* C1: periph_clock2_selector_mut returns Err(InUse) exactly when the primary
\* mux selects PeriphClock2, and pre_periph_clock_selector_mut exactly when it
\* selects PrePeriphClock; once PeriphClockSelector::set_input has pointed the
\* primary at the other feeder, the call on this feeder returns the selector.
C1_FeederInUse ==
    [][ /\ periph_clock2_selector_mut =>
              /\ ret'.res \in {"Ok", "InUse"}
              /\ ret'.res = "InUse" <=> PeriphClockSelector_input = "PeriphClock2"
              /\ ret'.res = "Ok" <=> borrow' = "PeriphClock2Selector"
              /\ (RetIs("PeriphClockSelector_set_input", <<"PrePeriphClock">>, "Ok")
                    => ret'.res = "Ok")
        /\ pre_periph_clock_selector_mut =>
              /\ ret'.res \in {"Ok", "InUse"}
              /\ ret'.res = "InUse" <=> PeriphClockSelector_input = "PrePeriphClock"
              /\ ret'.res = "Ok" <=> borrow' = "PrePeriphClockSelector"
              /\ (RetIs("PeriphClockSelector_set_input", <<"PeriphClock2">>, "Ok")
                    => ret'.res = "Ok")
      ]_vars

\* C1 witness: the primary starts on PrePeriphClock, so the PRE_PERIPH_CLK_SEL
\* selector was handed out after the primary was pointed at PeriphClock2.
C1_Witness ==
    /\ RetIs("pre_periph_clock_selector_mut", <<>>, "Ok")
    /\ borrow = "PrePeriphClockSelector"
    /\ PeriphClockSelector_input = "PeriphClock2"

\* C2: Ccm::enable of a UART whose gate is Disabled validates the clock path:
\* Ok on the Oscillator; Err(TooFast), gate left Disabled and no handle, on
\* Usb1PllOverSix with the PLL on, multiplier TwentyTwo and divisor 1;
\* Err(Disabled) on Usb1PllOverSix with the USB1 PLL not enabled.
C2_EnableValidatesClock ==
    [][ \A p \in Exercised \cap Uarts :
          (Ccm_enable(p) /\ clock_gate(GATE(p)) = "Disabled") =>
              /\ UartClockSelector_input = "Oscillator" => ret'.res = "Ok"
              /\ (/\ UartClockSelector_input = "Usb1PllOverSix"
                  /\ Usb1Pll_enabled
                  /\ Usb1Pll_multiplier = "TwentyTwo"
                  /\ UartClockSelector_divisor = 1)
                    => /\ ret'.res = "TooFast"
                       /\ clock_gate_of(ccgr', GATE(p)) = "Disabled"
                       /\ handles' = handles
              /\ (UartClockSelector_input = "Usb1PllOverSix" /\ ~Usb1Pll_enabled)
                    => ret'.res = "Disabled"
      ]_vars

\* C3: every UART gate that is Enabled has a clock path check_clock accepts:
\* the UART mux on the Oscillator, or the USB1 PLL enabled and not
\* (multiplier TwentyTwo with divisor 1).
C3_EnabledUartClockSafe ==
    \A p \in Uarts :
        clock_gate(GATE(p)) = "Enabled" =>
            \/ UartClockSelector_input = "Oscillator"
            \/ /\ Usb1Pll_enabled
               /\ ~(Usb1Pll_multiplier = "TwentyTwo" /\ UartClockSelector_divisor = 1)

\* C4: Ccm::enable of a peripheral whose gate is Enabled or EnabledDuringWake
\* returns Err(InUse) and leaves every gate and every handle as it was.
C4_EnableInUse ==
    [][ \A p \in Exercised :
          (Ccm_enable(p) /\ clock_gate(GATE(p)) \in {"Enabled", "EnabledDuringWake"}) =>
              /\ ret' = Ret("Ccm_enable", <<p>>, "InUse")
              /\ ccgr' = ccgr
              /\ handles' = handles
      ]_vars

\* C4 witness: an enable refused on a gate the firmware left EnabledDuringWake.
C4_Witness ==
    /\ RetIs("Ccm_enable", <<"Iomuxc">>, "InUse")
    /\ clock_gate(GATE("Iomuxc")) = "EnabledDuringWake"

\* C5: at most one handle of a peripheral is live, and the gate of a
\* peripheral with a live handle reads Enabled.
C5_OneHandlePerGate ==
    \A p \in Exercised :
        /\ handles[p] <= 1
        /\ handles[p] >= 1 => clock_gate(GATE(p)) = "Enabled"

\* C5 witness: a second enable of a UART was refused while its handle is live,
\* next to the live handle of another peripheral.
C5_Witness ==
    /\ RetIs("Ccm_enable", <<"LpUart1">>, "InUse")
    /\ handles["LpUart1"] = 1
    /\ handles["Iomuxc"] = 1

\* C6: sanitize on the Ccm startup has just constructed never panics, is never
\* stuck other than on a busy bit, and returns with the primary mux on
\* PeriphClock2, PERIPH_CLK2_SEL on the Oscillator and the ARM PLL bypassed,
\* not enabled and powered down.
C6_SanitizeFresh ==
    /\ ~(ret.op = "sanitize" /\ ret.res = "panic")
    /\ pc = "sanitize_periph_clock2" => (get_bit(cdhipr, 3) \/ ENABLED Ccm_sanitize_2)
    /\ pc = "sanitize_periph_clock" => (get_bit(cdhipr, 5) \/ ENABLED Ccm_sanitize_3)
    /\ pc = "sanitize_arm_pll" => ENABLED Ccm_sanitize_4
    /\ RetIs("sanitize", <<>>, "Ok") =>
          /\ PeriphClockSelector_input = "PeriphClock2"
          /\ PeriphClock2Selector_input = "Oscillator"
          /\ get_bit(pll_arm, 16)
          /\ ~get_bit(pll_arm, 13)
          /\ get_bit(pll_arm, 12)

\* C6 witness: sanitize has returned in startup, from a firmware image that had
\* PERIPH_CLK2_SEL elsewhere and the core clock on the ARM PLL.
C6_Witness ==
    /\ RetIs("sanitize", <<>>, "Ok")
    /\ boot = "startup_drop"
    /\ pc = "idle"
    /\ PrePeriphClockSelector_input = "ArmPll"
    /\ PROGRESS_COUNTER = 3

\* C7: Ccm::new called while a Ccm is live panics, and changes no register.
C7_SecondNewRejected ==
    [][ (Ccm_new /\ ccm >= 1) =>
            /\ pc' = "panic"
            /\ ccm' = ccm
            /\ UNCHANGED <<cbcdr, cbcmr, cscdr1, ccgr, pll_arm, pll_usb1>>
      ]_vars

\* C7 witness: a Ccm::new has panicked with the first Ccm still owned.
C7_Witness ==
    /\ RetIs("Ccm_new", <<>>, "panic")
    /\ pc = "panic"
    /\ ccm = 1

\* C8: in startup() -> main(), the Ccm::new() main makes returns a Ccm.
C8_MainGetsCcm ==
    boot = "main_ccm" => (pc # "panic" /\ ccm = 1)

\* C9: on each of the four muxes, input() after set_input(v) has returned is v.
C9_SetInputRoundTrip ==
    /\ (ret.op = "PeriphClockSelector_set_input" /\ ret.res = "Ok")
          => PeriphClockSelector_input = ret.arg[1]
    /\ (ret.op = "PeriphClock2Selector_set_input" /\ ret.res = "Ok")
          => PeriphClock2Selector_input = ret.arg[1]
    /\ ret.op = "PrePeriphClockSelector_set_input"
          => PrePeriphClockSelector_input = ret.arg[1]
    /\ ret.op = "UartClockSelector_set_input"
          => UartClockSelector_input = ret.arg[1]

\* C9 witness: PrePeriphClockSelector::set_input(SystemPllPfd0) has returned
\* on a register whose other mux field is not zero.
C9_Witness ==
    /\ RetIs("PrePeriphClockSelector_set_input", <<"SystemPllPfd0">>, "Ok")
    /\ PeriphClock2Selector_input = "SystemPllBypass"

\* C10: after set_clock_gate(coords, s), clock_gate(coords) is s and
\* clock_gate of every other coordinate is what it was.
C10_GateRoundTripFrame ==
    [][ set_clock_gate =>
            LET gate == <<ret'.arg[1], ret'.arg[2]>>
            IN  /\ clock_gate_of(ccgr', gate) = ret'.arg[3]
                /\ \A r \in 0 .. 7, f \in 0 .. 15 :
                      <<r, f>> # gate =>
                          clock_gate_of(ccgr', <<r, f>>) = clock_gate_of(ccgr, <<r, f>>)
      ]_vars

\* C10 witness: EnabledDuringWake written to the gate of LPUART1, between the
\* gate the firmware left Enabled and the gate of LPUART7.
C10_Witness ==
    /\ RetIs("set_clock_gate", <<5, 12, "EnabledDuringWake">>, "Ok")
    /\ clock_gate(<<5, 12>>) = "EnabledDuringWake"
    /\ clock_gate(<<5, 11>>) = "Enabled"

\* C11: a gate field at the in-between raw value 2 is tolerated on read:
\* clock_gate, enable and uart_clock_selector_mut return a result, they do
\* not halt.
C11_ReservedGateTolerated ==
    ret.op \in {"clock_gate", "Ccm_enable", "uart_clock_selector_mut"}
        => (ret.res # "panic" /\ pc # "panic")

\* C12: the gate fields start in {0, 1, 3}, and after any writes made through
\* set_clock_gate, enable and disable no gate field holds the raw value 2.
C12_NoReservedGateWritten ==
    \A r \in 0 .. 7, f \in 0 .. 15 :
        get_bits(ccgr[r], f * 2, f * 2 + 2) \in {0, 1, 3}

\* C12 witness: set_clock_gate has written the gate of LPUART7, and enable and
\* then disable have written the gate of LPUART1.
C12_Witness ==
    /\ gate_writes = 1
    /\ get_bits(ccgr[5], 26, 28) = 1
    /\ RetIs("Ccm_disable", <<"LpUart1">>, "Ok")

\* C17: uart_clock_selector_mut returns Err(InUse) exactly when one of the
\* gates (5,12), (0,14), (0,6), (1,12), (3,1), (3,3), (5,13), (6,7) is not
\* Disabled, and the UART mux register changes only while all eight are.
C17_UartMuxInUse ==
    [][ LET LpUartGates ==
                {<<5, 12>>, <<0, 14>>, <<0, 6>>, <<1, 12>>,
                 <<3, 1>>, <<3, 3>>, <<5, 13>>, <<6, 7>>}
            on == \E g \in LpUartGates :
                      get_bits(ccgr[g[1]], g[2] * 2, g[2] * 2 + 2) # 0
        IN  /\ uart_clock_selector_mut =>
                  /\ ret'.res \in {"Ok", "InUse"}
                  /\ ret'.res = "InUse" <=> on
                  /\ ret'.res = "Ok" <=> borrow' = "UartClockSelector"
            /\ cscdr1' # cscdr1 => ~on
      ]_vars

\* C17 witness: the selector was refused with the gate of LPUART8 alone on.
C17_Witness ==
    /\ RetIs("uart_clock_selector_mut", <<>>, "InUse")
    /\ clock_gate(<<6, 7>>) = "EnabledDuringWake"
    /\ \A i \in 1 .. 7 : clock_gate(UART_CLOCK_GATES[i]) = "Disabled"

\* C13 (as stated): set_input on a feeder mux (PRE_PERIPH_CLK_SEL,
\* PERIPH_CLK2_SEL) has returned only with its switch-busy bit clear, and
\* set_input on the primary PERIPH_CLK_SEL mux returns without waiting: it is
\* never held back by a busy bit.
C13_WaitExactlyOnFeeders ==
    /\ (ret.op = "PeriphClock2Selector_set_input" /\ ret.res = "Ok")
          => ~get_bit(cdhipr, 3)
    /\ (ret.op = "PrePeriphClockSelector_set_input" /\ ret.res = "Ok")
          => cdhipr = {}
    /\ ~(/\ ret.op = "PeriphClockSelector_set_input"
          /\ ret.res = "spinning"
          /\ get_bit(cdhipr, 5))

\* C13 (amended): set_input waits on the two muxes that have a switch-busy bit
\* in cdhipr: the primary PERIPH_CLK_SEL returns only once bit 5 reads clear
\* and PERIPH_CLK2_SEL only once bit 3 reads clear; set_input on
\* PRE_PERIPH_CLK_SEL returns at once and reads no busy bit.
C13_WaitOnBusyBitMuxes ==
    [][ /\ (ret'.op = "PeriphClockSelector_set_input" /\ ret' # ret) =>
              \/ ret'.res = "spinning" /\ pc' = "PeriphClockSelector_set_input"
              \/ /\ ret.res = "spinning" /\ ret'.res = "Ok" /\ pc' = "idle"
                 /\ ~get_bit(cdhipr, 5) /\ ~get_bit(cdhipr', 5)
        /\ (ret'.op = "PeriphClock2Selector_set_input" /\ ret' # ret) =>
              \/ ret'.res = "spinning" /\ pc' = "PeriphClock2Selector_set_input"
              \/ /\ ret.res = "spinning" /\ ret'.res = "Ok" /\ pc' = "idle"
                 /\ ~get_bit(cdhipr, 3) /\ ~get_bit(cdhipr', 3)
        /\ (ret'.op = "PrePeriphClockSelector_set_input" /\ ret' # ret) =>
              /\ ret'.res = "Ok" /\ pc' = "idle"
              /\ cdhipr' = cdhipr
      ]_vars

\* C13 witness: the primary mux was switched to PeriphClock2 and its set_input
\* has returned.
C13_Witness ==
    /\ RetIs("PeriphClockSelector_set_input", <<"PeriphClock2">>, "Ok")
    /\ pc = "idle"
    /\ PeriphClockSelector_input = "PeriphClock2"
    /\ ~get_bit(cdhipr, 5)

\* C14: arm_pll_mut returns Err(InUse) exactly when PRE_PERIPH_CLK_SEL selects
\* ArmPll and the primary PERIPH_CLK_SEL selects PrePeriphClock; in every
\* other mux configuration it returns the PLL handle.
C14_ArmPllInUse ==
    [][ arm_pll_mut =>
            /\ ret'.res \in {"Ok", "InUse"}
            /\ ret'.res = "InUse" <=>
                  /\ PrePeriphClockSelector_input = "ArmPll"
                  /\ PeriphClockSelector_input = "PrePeriphClock"
            /\ ret'.res = "Ok" <=> borrow' = "ArmPll"
      ]_vars

\* C14 witness: the handle was returned with PRE_PERIPH_CLK_SEL on the ARM PLL,
\* the primary mux being on PeriphClock2.
C14_Witness ==
    /\ RetIs("arm_pll_mut", <<>>, "Ok")
    /\ borrow = "ArmPll"
    /\ PrePeriphClockSelector_input = "ArmPll"
    /\ PeriphClockSelector_input = "PeriphClock2"

\* C15: ArmPll::disable makes exactly three writes to pll_arm, in this order:
\* set bypass (bit 16), clear enable (bit 13), set powerdown (bit 12); nothing
\* else writes pll_arm, and enable is never cleared before bypass is set.
C15_DisableOrder ==
    [][ /\ (pc = "idle" /\ ret'.op = "ArmPll_disable" /\ ret' # ret) =>
              /\ pll_arm' = pll_arm \cup {16}
              /\ pc' = "ArmPll_disable_enable"
        /\ (pc = "ArmPll_disable_enable" /\ pc' # pc) =>
              /\ pll_arm' = pll_arm \ {13}
              /\ pc' = "ArmPll_disable_powerdown"
        /\ (pc = "ArmPll_disable_powerdown" /\ pc' # pc) =>
              /\ pll_arm' = pll_arm \cup {12}
              /\ pc' = "idle"
              /\ ret'.op = "ArmPll_disable" /\ ret'.res = "Ok"
        /\ pll_arm' # pll_arm => ret'.op = "ArmPll_disable"
        /\ (get_bit(pll_arm, 13) /\ ~get_bit(pll_arm', 13)) => get_bit(pll_arm, 16)
        /\ (~get_bit(pll_arm, 12) /\ get_bit(pll_arm', 12)) =>
              (get_bit(pll_arm, 16) /\ ~get_bit(pll_arm, 13))
      ]_vars

\* C15 witness: disable has returned on the PLL the firmware left enabled, not
\* bypassed and powered.
C15_Witness ==
    /\ RetIs("ArmPll_disable", <<>>, "Ok")
    /\ pc = "idle"
    /\ pll_arm = {12, 16}

\* C16: Ccm::disable(handle) sets the gate of that peripheral to Disabled and
\* changes no other gate, and a Ccm::enable of the same peripheral that
\* follows it does not fail with InUse.
C16_DisableReleasesGate ==
    [][ \A p \in Exercised :
          /\ Ccm_disable(p) =>
                /\ clock_gate_of(ccgr', GATE(p)) = "Disabled"
                /\ handles'[p] = handles[p] - 1
                /\ \A r \in 0 .. 7, f \in 0 .. 15 :
                      <<r, f>> # GATE(p) =>
                          get_bits(ccgr'[r], f * 2, f * 2 + 2)
                              = get_bits(ccgr[r], f * 2, f * 2 + 2)
          /\ (RetIs("Ccm_disable", <<p>>, "Ok") /\ Ccm_enable(p)) =>
                /\ ret' = Ret("Ccm_enable", <<p>>, "Ok")
                /\ handles'[p] = handles[p] + 1
      ]_vars

\* C16 witness: the handle of LPUART1 was given back with disable and its gate
\* reads Disabled, next to the live handle of LPUART2 and the gate the
\* firmware left on in the same register.
C16_Witness ==
    /\ RetIs("Ccm_disable", <<"LpUart1">>, "Ok")
    /\ clock_gate(GATE("LpUart1")) = "Disabled"
    /\ handles["LpUart2"] = 1
    /\ clock_gate(GATE("LpUart2")) = "Enabled"
    /\ clock_gate(<<5, 11>>) = "Enabled"

\* C18: a set_input changes only its own select field: in cbcmr, the
\* PRE_PERIPH_CLK_SEL set_input leaves the PERIPH_CLK2_SEL selection and the
\* PERIPH_CLK2_SEL set_input leaves the PRE_PERIPH_CLK_SEL selection; in
\* cscdr1, the UART set_input leaves the divisor and set_divisor the input.
C18_SetInputFrame ==
    [][ /\ PrePeriphClockSelector_set_input =>
              /\ PeriphClock2Selector_input' = PeriphClock2Selector_input
              /\ cbcmr' \ {18, 19} = cbcmr \ {18, 19}
        /\ PeriphClock2Selector_set_input =>
              /\ PrePeriphClockSelector_input' = PrePeriphClockSelector_input
              /\ cbcmr' \ {12, 13} = cbcmr \ {12, 13}
        /\ UartClockSelector_set_input =>
              /\ UartClockSelector_divisor' = UartClockSelector_divisor
              /\ cscdr1' \ {6} = cscdr1 \ {6}
        /\ UartClockSelector_set_divisor =>
              /\ UartClockSelector_input' = UartClockSelector_input
              /\ cscdr1' \ (0 .. 5) = cscdr1 \ (0 .. 5)
      ]_vars

\* C18 witness: the UART mux was switched to the Oscillator with the divisor
\* at 2.
C18_Witness ==
    /\ RetIs("UartClockSelector_set_input", <<"Oscillator">>, "Ok")
    /\ UartClockSelector_input = "Oscillator"
    /\ UartClockSelector_divisor = 2

\* C19: check_clock of a UART returns Ok when the UART mux is on the
\* Oscillator; on Usb1PllOverSix it returns Disabled if the USB1 PLL is not
\* both powered and enabled, otherwise TooFast exactly when the multiplier is
\* TwentyTwo and the divisor is 1, otherwise Ok.
C19_UartCheckClock ==
    [][ \A p \in Exercised \cap Uarts :
          check_clock_call(p) =>
              LET powered == get_bit(pll_usb1, 12)
                  enabled == get_bit(pll_usb1, 13)
                  fast == Usb1Pll_multiplier = "TwentyTwo"
                              /\ UartClockSelector_divisor = 1
              IN  /\ ret'.res \in {"Ok", "Disabled", "TooFast"}
                  /\ UartClockSelector_input = "Oscillator" => ret'.res = "Ok"
                  /\ UartClockSelector_input = "Usb1PllOverSix" =>
                        /\ ret'.res = "Disabled" <=> ~(powered /\ enabled)
                        /\ ret'.res = "TooFast" <=> (powered /\ enabled /\ fast)
                        /\ ret'.res = "Ok" <=> (powered /\ enabled /\ ~fast)
      ]_vars

\* C19 witness: check_clock has accepted the USB1 PLL at multiplier TwentyTwo
\* behind a divisor of 2.
C19_Witness ==
    /\ RetIs("check_clock", <<"LpUart1">>, "Ok")
    /\ UartClockSelector_input = "Usb1PllOverSix"
    /\ Usb1Pll_enabled
    /\ Usb1Pll_multiplier = "TwentyTwo"
    /\ UartClockSelector_divisor = 2

\* C20: over any sequence of get_pin::<GpioAdB0_02> calls, also on an Iomuxc
\* handle obtained after an earlier one was disabled, at most one GpioAdB0_02
\* is ever returned (so at most one pin or LPUART6 TX pin value is live), and
\* every call after the one that returned it gets Err(PinError::InUse).
C20_PinIssuedOnce ==
    [][ /\ pins_issued' <= 1
        /\ pins'.GpioAdB0_02 + pins'.GpioAdB0_02LpUartTx <= 1
        /\ (Iomuxc_get_pin /\ pins_issued >= 1) =>
              /\ ret' = Ret("get_pin", <<"GpioAdB0_02">>, "InUse")
              /\ pins' = pins
              /\ pins_issued' = pins_issued
      ]_vars

\* C20 witness: get_pin was refused although the pin it once returned has been
\* turned into the TX pin and dropped since.
C20_Witness ==
    /\ RetIs("get_pin", <<"GpioAdB0_02">>, "InUse")
    /\ pins_issued = 1
    /\ pins.GpioAdB0_02 = 0
    /\ pins.GpioAdB0_02LpUartTx = 0
    /\ sw_mux_ctl = 2

\* C21 (as stated): a get_pin for a pin that is already claimed is a fatal
\* halt: it does not return to its caller.
C21_SecondGetPinHalts ==
    (ret.op = "get_pin" /\ ret.res # "Ok") => (ret.res = "panic" /\ pc = "panic")

\* C21 (amended): a get_pin for a pin that is already claimed returns
\* Err(PinError::InUse) to its caller, which runs on; only a second Ccm::new
\* is a panic.
C21_SecondGetPinReturns ==
    [][ (Iomuxc_get_pin /\ GPIO_AD_B0_02_INIT) =>
            /\ ret' = Ret("get_pin", <<"GpioAdB0_02">>, "InUse")
            /\ pc' = "idle"
            /\ UNCHANGED <<pins, pins_issued>>
      ]_vars

\* C21 witness: get_pin was refused while the pin it returned before is held,
\* and the program runs on.
C21_Witness ==
    /\ RetIs("get_pin", <<"GpioAdB0_02">>, "InUse")
    /\ pc = "idle"
    /\ pins.GpioAdB0_02 = 1

\* C22: sanitize forcibly shuts down the clock gates: when it has returned,
\* no LPUART gate reads Enabled, whatever the client had enabled before the
\* call.
C22_SanitizeShutsGates ==
    RetIs("sanitize", <<>>, "Ok") =>
        \A p \in Uarts : clock_gate(GATE(p)) # "Enabled"

\* C24: sanitize runs in the order PERIPH_CLK2_SEL := Oscillator, primary :=
\* PeriphClock2, ARM PLL disable, with one progress() after each: at each
\* position of sanitize the steps before it have taken effect and been
\* notified once each and the steps after it have not, and pll_arm is written
\* only in the third step, with the primary mux on PeriphClock2.
C24_SanitizeOrder ==
    [][ LET at(n) == PROGRESS_COUNTER' = 10 \/ PROGRESS_COUNTER' % 3 = n
            disabled == /\ get_bit(pll_arm', 16)
                        /\ ~get_bit(pll_arm', 13)
                        /\ get_bit(pll_arm', 12)
            sel == PeriphClockInput_from(get_bits(cbcdr', 25, 26))
            sel2 == PeriphClock2Input_from(get_bits(cbcmr', 12, 14))
        IN  /\ pc' \in {"idle", "panic"} => at(0)
            /\ pc' = "sanitize_periph_clock2" =>
                  /\ at(0)
                  /\ sel2 = "Oscillator"
                  /\ sel = "PrePeriphClock"
            /\ pc' = "sanitize_periph_clock" =>
                  /\ at(1)
                  /\ sel2 = "Oscillator"
                  /\ sel = "PeriphClock2"
            /\ pc' = "sanitize_arm_pll" =>
                  /\ at(2)
                  /\ sel2 = "Oscillator"
                  /\ sel = "PeriphClock2"
                  /\ disabled
            /\ (ret'.op = "sanitize" /\ ret'.res = "Ok") =>
                  (sel2 = "Oscillator" /\ sel = "PeriphClock2" /\ disabled)
            /\ cbcmr' # cbcmr => (pc = "idle" /\ pc' = "sanitize_periph_clock2")
            /\ (cbcdr' # cbcdr /\ pc # "idle") =>
                  (pc = "sanitize_periph_clock2" /\ pc' = "sanitize_periph_clock")
            /\ pll_arm' # pll_arm =>
                  /\ pc = "sanitize_periph_clock" /\ pc' = "sanitize_arm_pll"
                  /\ PeriphClockSelector_input = "PeriphClock2"
                  /\ ~get_bit(cdhipr, 5)
      ]_vars

\* C24 witness: a second sanitize has returned, the ARM PLL off and six
\* notifications made, after the client had put the core clock back on the
\* PrePeriphClock path.
C24_Witness ==
    /\ RetIs("sanitize", <<>>, "Ok")
    /\ pc = "idle"
    /\ PROGRESS_COUNTER = 6
    /\ PeriphClockSelector_input = "PeriphClock2"
    /\ get_bit(pll_arm, 12)

\* C25: sanitize called with the primary mux on PeriphClock2 panics at its
\* first step: no register is written and no progress() is made.
C25_SanitizeTwicePanics ==
    [][ (Ccm_sanitize /\ PeriphClockSelector_input = "PeriphClock2") =>
            /\ pc' = "panic"
            /\ ret' = Ret("sanitize", <<>>, "panic")
            /\ UNCHANGED <<cbcdr, cbcmr, pll_arm, gpio6, PROGRESS_COUNTER>>
      ]_vars

\* C25 witness: a second sanitize has panicked, the three notifications of
\* the first the only ones made, PERIPH_CLK2_SEL and the PLL as the first
\* left them.
C25_Witness ==
    /\ RetIs("sanitize", <<>>, "panic")
    /\ pc = "panic"
    /\ PROGRESS_COUNTER = 3
    /\ PeriphClockSelector_input = "PeriphClock2"
    /\ PeriphClock2Selector_input = "Oscillator"
    /\ ~get_bit(pll_arm, 13)

\* C26: PERIPH_CLK2_SEL changes only in a step taken with the primary mux on
\* PrePeriphClock, PRE_PERIPH_CLK_SEL only in a step taken with the primary
\* mux on PeriphClock2, and in every state the test of exactly one of
\* periph_clock2_selector_mut and pre_periph_clock_selector_mut passes.
C26_FeederSwitchedOffPath ==
    [][ /\ get_bits(cbcmr', 12, 14) # get_bits(cbcmr, 12, 14) =>
              /\ PeriphClockSelector_input = "PrePeriphClock"
              /\ ~get_bit(cdhipr, 5)
              /\ get_bits(cbcdr', 25, 26) = get_bits(cbcdr, 25, 26)
        /\ get_bits(cbcmr', 18, 20) # get_bits(cbcmr, 18, 20) =>
              /\ PeriphClockSelector_input = "PeriphClock2"
              /\ ~get_bit(cdhipr, 5)
              /\ get_bits(cbcdr', 25, 26) = get_bits(cbcdr, 25, 26)
        /\ (PeriphClockSelector_input \notin {"panic", "PeriphClock2"})
              # (PeriphClockSelector_input \notin {"panic", "PrePeriphClock"})
      ]_vars

\* C26 witness: PRE_PERIPH_CLK_SEL has been moved off the ARM PLL with the
\* core clock on PeriphClock2, and PERIPH_CLK2_SEL is where an earlier
\* set_input, made with the core clock on PrePeriphClock, put it.
C26_Witness ==
    /\ RetIs("PrePeriphClockSelector_set_input", <<"SystemPll">>, "Ok")
    /\ PeriphClockSelector_input = "PeriphClock2"
    /\ PrePeriphClockSelector_input = "SystemPll"
    /\ borrow = "PrePeriphClockSelector"

\* C27: the core clock never selects a disabled ARM PLL: in no state is the
\* ARM PLL powered down and not enabled while the primary mux selects
\* PrePeriphClock and PRE_PERIPH_CLK_SEL selects ArmPll.
C27_CoreNeverOnDisabledPll ==
    ~ /\ get_bit(pll_arm, 12)
      /\ ~get_bit(pll_arm, 13)
      /\ PeriphClockSelector_input = "PrePeriphClock"
      /\ PrePeriphClockSelector_input = "ArmPll"

\* C30: set_divisor(d) with d in 1..64 stores d - 1 in podf, so that
\* divisor() then returns d, and leaves the mux bit alone; set_divisor(0) and
\* set_divisor(d) with d > 64 panic and leave cscdr1 as it was; divisor() is
\* in 1..64 on every content of the field.
C30_DivisorRoundTrip ==
    [][ /\ UartClockSelector_divisor \in 1 .. 64
        /\ UartClockSelector_divisor' \in 1 .. 64
        /\ UartClockSelector_set_divisor_in(DivisorInputs) =>
              IF ret'.arg[1] \in 1 .. 64
              THEN /\ ret'.res = "Ok"
                   /\ UartClockSelector_divisor' = ret'.arg[1]
                   /\ get_bit(cscdr1', 6) = get_bit(cscdr1, 6)
              ELSE /\ ret'.res = "panic"
                   /\ pc' = "panic"
                   /\ cscdr1' = cscdr1
      ]_vars

\* C30 witness: the largest divisor stored, next to a mux bit that is set.
C30_Witness ==
    /\ RetIs("UartClockSelector_set_divisor", <<64>>, "Ok")
    /\ UartClockSelector_divisor = 64
    /\ get_bits(cscdr1, 0, 6) = 63
    /\ get_bit(cscdr1, 6)

\* C29: whatever the interleaving of the callers of Ccm::new, at most one has
\* read CCM_INIT as false, at most one has returned a Ccm, every other caller
\* that has finished has panicked, and CCM_INIT is set once any has swapped.
C29_OneCallerWins ==
    LET T == 1 .. MaxCallers
    IN  /\ Cardinality({t \in T : callers[t].at # "call" /\ ~callers[t].was_init}) <= 1
        /\ Cardinality({t \in T : callers[t].at \in {"returned", "dropped"}}) <= 1
        /\ ccm <= 1
        /\ \A t \in T :
              /\ callers[t].at = "panicked" => callers[t].was_init
              /\ callers[t].at \in {"returned", "dropped"} => ~callers[t].was_init
              /\ callers[t].at # "call" => CCM_INIT

\* C29 witness: of three callers, the second returned the Ccm and the other
\* two panicked.
C29_Witness ==
    /\ callers[2].at = "returned"
    /\ callers[1].at = "panicked"
    /\ callers[3].at = "panicked"
    /\ ccm = 1

\* C23: baud changes only in a call made on a handle LpUartN<(), ()> while
\* no handle with a pin exists and ctrl[te] is clear; send starts only on a
\* handle with a TX pin, with ctrl[te] set; a handle with a TX pin exists
\* only with ctrl[te] set; and once ctrl[te] is set it stays set and no
\* handle LpUartN<(), ()> of that UART exists again.
C23_UartStages ==
    [][ \A p \in Uarts :
          LET te == get_bit(LpUartRegs[p].ctrl, 19)
              tx_bound(h) == \E ts \in TypeStates : ts[1] # "()" /\ h[p][ts] >= 1
          IN  /\ LpUartRegs'[p].baud # LpUartRegs[p].baud =>
                    /\ handles[p] >= 1
                    /\ \A ts \in TypeStates : typed[p][ts] = 0
                    /\ ~te
              /\ (pc = "idle" /\ pc' = "LpUart_send" /\ ret'.arg[1] = p) =>
                    (tx_bound(typed) /\ te)
              /\ tx_bound(typed') => get_bit(LpUartRegs'[p].ctrl, 19)
              /\ te => /\ get_bit(LpUartRegs'[p].ctrl, 19)
                       /\ handles'[p] = 0
      ]_vars

\* C23 witness: the example of lib.rs: LPUART6 got its baud rate from
\* set_clocks(250, 10), then the TX pin of GPIO_AD_B0_02, and has sent a byte.
C23_Witness ==
    /\ RetIs("send", <<"LpUart6", 104>>, "Ok")
    /\ get_bits(LpUartRegs["LpUart6"].baud, 0, 13) = 250
    /\ get_bits(LpUartRegs["LpUart6"].baud, 24, 29) = 9
    /\ typed["LpUart6"][<<"GpioAdB0_02LpUartTx", "()">>] = 1
    /\ get_bit(LpUartRegs["LpUart6"].ctrl, 19)

\* C28: once set_tx has set ctrl[te] of a UART, the gate of that UART reads
\* Enabled in every later state, and every uart_clock_selector_mut returns
\* Err(InUse).
C28_BoundUartStaysClocked ==
    [][ LET te(p) == get_bit(LpUartRegs[p].ctrl, 19)
        IN  /\ \A p \in Uarts :
                  te(p) => /\ clock_gate(GATE(p)) = "Enabled"
                           /\ clock_gate_of(ccgr', GATE(p)) = "Enabled"
            /\ (uart_clock_selector_mut /\ \E p \in Uarts : te(p)) =>
                  ret' = Ret("uart_clock_selector_mut", <<>>, "InUse")
      ]_vars

\* C28 witness: uart_clock_selector_mut was refused after the handle of
\* LPUART6 that had the TX pin went out of scope.
C28_Witness ==
    /\ RetIs("uart_clock_selector_mut", <<>>, "InUse")
    /\ get_bit(LpUartRegs["LpUart6"].ctrl, 19)
    /\ \A ts \in TypeStates : typed["LpUart6"][ts] = 0
    /\ handles["LpUart6"] = 0
    /\ clock_gate(GATE("LpUart6")) = "Enabled"

\* C31: a call of debug::progress that gets past both tests holds an index
\* in 0..9 and lights the segment of that index; the segments lit are those
\* of the indices below the counter, in table order, less the ones whose
\* caller has not written yet; with the counter at ten no further segment is
\* lit; and where a single context calls progress, PROGRESS_COUNTER never
\* exceeds 10.
C31_ProgressBar ==
    LET T == 1 .. MaxCallers
        pending == {progress_calls[t].idx : t \in {u \in T : progress_calls[u].at = "added"}}
        handed == IF PROGRESS_COUNTER < PROGRESS_MAX THEN PROGRESS_COUNTER
                                                     ELSE PROGRESS_MAX
    IN  /\ \A t \in T :
              progress_calls[t].at = "added" => progress_calls[t].idx \in 0 .. 9
        /\ gpio6 = {PROGRESS_SHIFT[i + 1] : i \in (0 .. (handed - 1)) \ pending}
        /\ Cardinality(pending) =
              Cardinality({t \in T : progress_calls[t].at = "added"})
        /\ Cardinality({t \in T : progress_calls[t].at # "absent"}) <= 1
              => PROGRESS_COUNTER <= 10

\* C31 witness: the eleventh call of a single context has returned at the
\* first test, the ten segments lit and the counter at ten.
C31_Witness ==
    /\ RetIs("progress", <<>>, "full")
    /\ Cardinality({t \in 1 .. MaxCallers : progress_calls[t].at # "absent"}) = 1
    /\ PROGRESS_COUNTER = 10
    /\ gpio6 = {PROGRESS_SHIFT[i] : i \in 1 .. 10}

\* C32: during and after write_str(s) the bytes written to the data register
\* since the call are the bytes of s sent so far, in the order of s, and
\* write_str returns with all of s written; a byte after the first is
\* written with stat[tc] set, as the send before it saw it; and the spin of
\* a send ends only in a state with stat[tc] set.
C32_WriteStrInOrder ==
    [][ /\ ret'.op = "write_str" =>
              LET p == ret'.arg[1]
                  s == ret'.arg[2]
                  n == Len(s) - Len(write_str_rest')
                  w == wire'[p]
              IN  /\ n >= 0 /\ Len(w) >= n
                  /\ SubSeq(w, Len(w) - n + 1, Len(w)) = SubSeq(s, 1, n)
                  /\ write_str_rest' = SubSeq(s, n + 1, Len(s))
                  /\ ret'.res = "Ok" => n = Len(s)
                  /\ pc' = "idle" <=> ret'.res = "Ok"
        /\ \A p \in Uarts :
              (wire'[p] # wire[p] /\ pc = "write_str"
                  /\ write_str_rest # ret.arg[2]) =>
                  get_bit(LpUartRegs[p].stat, 22)
        /\ (pc \in {"LpUart_send", "write_str_spin"} /\ pc' # pc) =>
              /\ get_bit(LpUartRegs[ret.arg[1]].stat, 22)
              /\ LpUartRegs' = LpUartRegs
      ]_vars

\* C32 witness: write_str("hi") has returned on LPUART6 after a send of "h":
\* the data register was written h, h, i.
C32_Witness ==
    /\ RetIs("write_str", <<"LpUart6", <<104, 105>>>>, "Ok")
    /\ pc = "idle"
    /\ wire["LpUart6"] = <<104, 104, 105>>
    /\ write_str_rest = <<>>
    /\ get_bit(LpUartRegs["LpUart6"].stat, 22)

====
